---- MODULE Spec2Model ----
(***************************************************************************)
(* arca-sdk: the WSAA ticket lifecycle (WsaaService / TicketManager), the  *)
(* WSFE issuance sequence (WsfeService), the transport wrapper             *)
(* (callArcaApi) and the QR URL generator, as state machines.              *)
(*                                                                         *)
(* One asynchronous call is one process; every action is the synchronous   *)
(* code that runs between two awaits (JavaScript runs it atomically).      *)
(* Times are milliseconds, as in the code.                                 *)
(***************************************************************************)
EXTENDS Integers, Sequences, FiniteSets, TLC

VARIABLES
    now,        \* the clock read by `new Date()` (ms)
    ticket,     \* TicketManager.ticket: the in-memory ticket, or NoTicket
    hasStorage, \* config.storage is defined
    stored,     \* what the external TokenStorage holds for (cuit, environment)
    issued,     \* number of tickets WSAA has issued so far
    pc,         \* per login() call: where the call is suspended
    ret,        \* per login() call: what the call settled with
    io,         \* per login() call: the I/O the call has performed
    fresh,      \* per login() call: the ticket obtained from WSAA by this call
    active,     \* the login() calls that may run (one, or two concurrent ones)
    \* -- the awaits of one public operation (callArcaApi and the store)
    wOp,        \* the public operation in progress, or "none"
    wCfg,       \* config.timeout of the instance (0: not set)
    wWait,      \* what the operation awaits: "fetch", "body", "storage_get", ...
    wTimer,     \* the delay of the armed setTimeout (0: no timer armed)
    wElapsed,   \* how long the current await has lasted (ms)
    wLeft,      \* round trips still to make after the current one
    wResult,    \* how the operation ended
    \* -- WsfeService and the remote WSFE service
    remoteLast, \* per document type: the last number the remote has authorized
    wsfeActive, \* the WsfeService calls that may run
    opPc,       \* per call: where the call is suspended
    opParams,   \* per call: what the caller passed
    opLog,      \* per call: the requests sent and the responses received
    opRet,      \* per call: what the call settled with
    \* -- generarUrlQR
    qrPc,       \* "idle", or "done" when the URL has been built
    qrIn,       \* the arguments of the call
    qrUrl,      \* the URL returned
    \* -- round
    calcPc,     \* "idle", or "done" when round has returned
    calcIn,     \* the argument of the call (thousandths of a centavo)
    calcOut,    \* the value returned (centavos)
    \* -- one WsfeService instance: construction and the Auth block it sends
    instPc,     \* "none", or "ready" once the constructor has returned
    instIn,     \* the config last passed to the constructor
    instConfig, \* this.config of the instance, or NoConfig
    instErr,    \* what the last constructor call threw, or NoThrow
    instSent,   \* the last request the instance has sent, or NoRequest
    \* -- the history of clearCache
    cleared,    \* the ticket the last clearCache() removed from memory, until
                \* a login() that began after it has returned; else NoTicket
    afterClear  \* the login() call in progress began after that clearCache()

authVars == <<now, ticket, hasStorage, stored, issued, pc, ret, io, fresh, active>>

waitVars == <<wOp, wCfg, wWait, wTimer, wElapsed, wLeft, wResult>>

wsfeVars == <<remoteLast, wsfeActive, opPc, opParams, opLog, opRet>>

qrVars == <<qrPc, qrIn, qrUrl>>

calcVars == <<calcPc, calcIn, calcOut>>

instVars == <<instPc, instIn, instConfig, instErr, instSent>>

histVars == <<cleared, afterClear>>

vars == <<authVars, waitVars, wsfeVars, qrVars, calcVars, instVars, histVars>>

\* What a step of one part of the library leaves alone.
notAuthVars == <<waitVars, wsfeVars, qrVars, calcVars, instVars, histVars>>

notWaitVars == <<authVars, wsfeVars, qrVars, calcVars, instVars, histVars>>

notWsfeVars == <<authVars, waitVars, qrVars, calcVars, instVars, histVars>>

notQrVars == <<authVars, waitVars, wsfeVars, calcVars, instVars, histVars>>

notCalcVars == <<authVars, waitVars, wsfeVars, qrVars, instVars, histVars>>

notInstVars == <<waitVars, wsfeVars, qrVars, calcVars, histVars>>

notHistVars == <<waitVars, wsfeVars, qrVars, calcVars, instVars>>

----------------------------------------------------------------------------
(* Bounds of the model *)

MaxTicks == 3
MaxTickets == 2

Callers == {"c1", "c2"}

MsPerTick == 60 * 1000

----------------------------------------------------------------------------
(* Tickets *)

\* A ticket: its token, its expiration time, and the service WSAA issued it
\* for (the service named in the TRA; the ticket itself does not carry it).
NoTicket == [token |-> 0, expirationTime |-> 0, service |-> "none"]

\* config.service of the WsaaService instance: buildTRA(this.config.service, ...)
ConfigService == "wsfe"

\* The services the WsaaService instances of one (cuit, environment) ask
\* tickets for: this one's, and the one PadronService configures.
Services == {ConfigService, "ws_sr_padron_a13"}

\* TicketManager.getTicket: const BUFFER_MS = 5 * 60 * 1000
BUFFER_MS == 5 * 60 * 1000

\* Lifetimes (expirationTime - now) a ticket may have when it is issued by
\* WSAA or written to the store by another process: around the buffer.
ExpiryOffsets ==
    {BUFFER_MS - MsPerTick, BUFFER_MS, BUFFER_MS + MsPerTick, BUFFER_MS + 2 * MsPerTick}

\* Token 0 with a positive expirationTime: a ticket another process, or
\* another WsaaService instance with the same cuit and environment, left in
\* the store.
ForeignTickets ==
    {[token |-> 0, expirationTime |-> e, service |-> sv] :
        e \in ExpiryOffsets, sv \in Services}

\* TicketManager.getTicket, the mutant: the buffer test dropped.
getTicketNoBuffer(tk, n) ==
    IF tk = NoTicket THEN NoTicket
    ELSE IF tk.expirationTime - n < 0 THEN NoTicket
    ELSE tk

\* TicketManager.getTicket: the ticket, or NoTicket (null) when there is none
\* or it expires in less than BUFFER_MS; in that case this.ticket becomes
\* null as well, so the value returned is also the new this.ticket.
getTicket(tk, n) ==
    IF tk = NoTicket THEN NoTicket
    ELSE IF tk.expirationTime - n < BUFFER_MS THEN NoTicket
    ELSE tk

\* WsaaService.login, the stored-ticket test:
\*   storedTicket && new Date(storedTicket.expirationTime) > new Date(now + 5 * 60000)
storedTicketUsable(st, n) ==
    /\ st # NoTicket
    /\ st.expirationTime > n + 5 * 60000

----------------------------------------------------------------------------
(* login() *)

\* What one login() call has done so far: the store calls it made and whether
\* they failed, whether it signed a TRA and called WSAA, and whether it met an
\* in-memory or a stored ticket with less than 5 minutes left.
NoIO ==
    [get |-> FALSE, getFailed |-> FALSE, save |-> FALSE, saveFailed |-> FALSE,
     sign |-> FALSE, wsaa |-> FALSE, staleMemory |-> FALSE, staleStored |-> FALSE]

ShortLived(tk, n) == tk # NoTicket /\ tk.expirationTime - n < 5 * 60 * 1000

NoRet ==
    [kind |-> "none", path |-> "none", ticket |-> NoTicket, error |-> "none",
     cause |-> "none", at |-> 0]

RetTicket(p, tk, n) ==
    [kind |-> "ticket", path |-> p, ticket |-> tk, error |-> "none",
     cause |-> "none", at |-> n]

\* error: the class of what login() rejects with ("Auth" ArcaAuthError,
\* "Network" ArcaNetworkError, "Raw" an error of the runtime or of the store);
\* cause: the step that failed.
RetError(e, cause, n) ==
    [kind |-> "error", path |-> "none", ticket |-> NoTicket, error |-> e,
     cause |-> cause, at |-> n]

\* WsaaService.requestNewTicket up to its first await: buildTRA, signCMS
\* (a throw becomes ArcaAuthError), then callArcaApi is entered.
requestNewTicketStart(c, signed, ioc) ==
    IF signed
    THEN /\ pc' = [pc EXCEPT ![c] = "requesting"]
         /\ io' = [io EXCEPT ![c] = [ioc EXCEPT !.sign = TRUE, !.wsaa = TRUE]]
         /\ ret' = ret
    ELSE /\ pc' = [pc EXCEPT ![c] = "done"]
         /\ io' = [io EXCEPT ![c] = [ioc EXCEPT !.sign = TRUE]]
         /\ ret' = [ret EXCEPT ![c] = RetError("Auth", "sign", now)]

\* login(), the mutant: the external store is consulted before the memory.
loginStartStorageFirst(c, signed) ==
    /\ pc[c] = "idle"
    /\ IF hasStorage
       THEN /\ ticket' = ticket
            /\ pc' = [pc EXCEPT ![c] = "getting"]
            /\ io' = [io EXCEPT ![c] = [NoIO EXCEPT !.get = TRUE]]
            /\ ret' = ret
       ELSE /\ ticket' = getTicket(ticket, now)
            /\ IF getTicket(ticket, now) # NoTicket
               THEN /\ pc' = [pc EXCEPT ![c] = "done"]
                    /\ ret' = [ret EXCEPT ![c] = RetTicket("memory", ticket, now)]
                    /\ io' = [io EXCEPT ![c] = NoIO]
               ELSE requestNewTicketStart(c, signed, NoIO)
    /\ UNCHANGED <<now, hasStorage, stored, issued, fresh, active>>

\* login() from its entry to its first await (or its return).
loginStart(c, signed) ==
    /\ pc[c] = "idle"
    /\ ticket' = getTicket(ticket, now)
    /\ IF getTicket(ticket, now) # NoTicket
       THEN \* 1. the in-memory ticket
            /\ pc' = [pc EXCEPT ![c] = "done"]
            /\ ret' = [ret EXCEPT ![c] = RetTicket("memory", ticket, now)]
            /\ io' = [io EXCEPT ![c] = NoIO]
       ELSE IF hasStorage
            THEN \* 2. await this.config.storage.get(cuit, environment)
                 /\ pc' = [pc EXCEPT ![c] = "getting"]
                 /\ io' = [io EXCEPT ![c] =
                             [NoIO EXCEPT !.get = TRUE,
                                          !.staleMemory = ShortLived(ticket, now)]]
                 /\ ret' = ret
            ELSE \* 3. requestNewTicket()
                 requestNewTicketStart(c, signed,
                     [NoIO EXCEPT !.staleMemory = ShortLived(ticket, now)])
    /\ UNCHANGED <<now, hasStorage, stored, issued, fresh, active>>

LoginStart(c) == \E signed \in BOOLEAN : loginStart(c, signed)

\* login() after storage.get, the mutant: a usable stored ticket is returned
\* but not set in memory.
storageGetSettledNotAdopted(c, failed, signed) ==
    /\ pc[c] = "getting"
    /\ IF ~failed /\ storedTicketUsable(stored, now)
       THEN /\ ticket' = ticket
            /\ pc' = [pc EXCEPT ![c] = "done"]
            /\ ret' = [ret EXCEPT ![c] = RetTicket("storage", stored, now)]
            /\ io' = io
       ELSE /\ ticket' = ticket
            /\ requestNewTicketStart(c, signed,
                   [io[c] EXCEPT !.getFailed = failed,
                                 !.staleStored = ~failed /\ ShortLived(stored, now)])
    /\ UNCHANGED <<now, hasStorage, stored, issued, fresh, active>>

\* The await on storage.get settles: with the stored ticket (or null), or by
\* throwing.  A usable stored ticket is adopted and returned; anything else
\* (null, a stale ticket, a failure) falls through to requestNewTicket().
storageGetSettled(c, failed, signed) ==
    /\ pc[c] = "getting"
    /\ IF ~failed /\ storedTicketUsable(stored, now)
       THEN /\ ticket' = stored
            /\ pc' = [pc EXCEPT ![c] = "done"]
            /\ ret' = [ret EXCEPT ![c] = RetTicket("storage", stored, now)]
            /\ io' = io
       ELSE /\ ticket' = ticket
            /\ requestNewTicketStart(c, signed,
                   [io[c] EXCEPT !.getFailed = failed,
                                 !.staleStored = ~failed /\ ShortLived(stored, now)])
    /\ UNCHANGED <<now, hasStorage, stored, issued, fresh, active>>

StorageGetSettled(c) ==
    \E failed \in BOOLEAN, signed \in BOOLEAN : storageGetSettled(c, failed, signed)

\* callArcaApi as login() sees it: the fetch rejects (transport failure, or
\* the abort at the timeout) with ArcaNetworkError, or resolves with a
\* response whose ok flag requestNewTicket tests.
FetchOutcomes == {"transport", "timeout", "http_error", "ok"}

\* requestNewTicket, the mutant: a non-2xx status is reported as the generic
\* ArcaError('HTTP_ERROR') of the WSFE calls.
wsaaFetchSettledHttpGeneric(c, outcome) ==
    /\ pc[c] = "requesting"
    /\ IF outcome \in {"transport", "timeout"}
       THEN /\ pc' = [pc EXCEPT ![c] = "done"]
            /\ ret' = [ret EXCEPT ![c] = RetError("Network", outcome, now)]
       ELSE IF outcome = "http_error"
            THEN /\ pc' = [pc EXCEPT ![c] = "done"]
                 /\ ret' = [ret EXCEPT ![c] = RetError("Http", outcome, now)]
            ELSE /\ pc' = [pc EXCEPT ![c] = "reading"]
                 /\ ret' = ret
    /\ UNCHANGED <<now, ticket, hasStorage, stored, issued, io, fresh, active>>

\* requestNewTicket after `await callArcaApi(...)`.
wsaaFetchSettled(c, outcome) ==
    /\ pc[c] = "requesting"
    /\ IF outcome \in {"transport", "timeout"}
       THEN /\ pc' = [pc EXCEPT ![c] = "done"]
            /\ ret' = [ret EXCEPT ![c] = RetError("Network", outcome, now)]
       ELSE IF outcome = "http_error"
            THEN /\ pc' = [pc EXCEPT ![c] = "done"]
                 /\ ret' = [ret EXCEPT ![c] = RetError("Auth", outcome, now)]
            ELSE /\ pc' = [pc EXCEPT ![c] = "reading"]
                 /\ ret' = ret
    /\ UNCHANGED <<now, ticket, hasStorage, stored, issued, io, fresh, active>>

WsaaFetchSettled(c) == \E outcome \in FetchOutcomes : wsaaFetchSettled(c, outcome)

\* The shapes of a WSAA response body that parseWsaaResponse tells apart:
\* whether Envelope.Body.loginCmsResponse.loginCmsReturn is there, whether
\* Envelope.Body.Fault is there, and what the inner (escaped) document is.
WsaaBodies ==
    [hasReturn : BOOLEAN, hasFault : BOOLEAN, inner : {"ticket", "incomplete", "unparsable"}]

\* parseWsaaResponse: "ticket", or the reason of the ArcaAuthError it throws.
parseWsaaResponse(body) ==
    IF ~body.hasReturn
    THEN IF body.hasFault THEN "fault" ELSE "unrecognized"
    ELSE IF body.inner = "unparsable" THEN "parse_error"
    ELSE IF body.inner = "incomplete" THEN "malformed"
    ELSE "ticket"

\* requestNewTicket after `await response.text()`, and the rest of login():
\* setTicket, then the await on storage.save when a store is configured.
wsaaBodyRead(c, readFailed, body, life) ==
    /\ pc[c] = "reading"
    /\ IF readFailed
       THEN \* response.text() rejects: nothing catches it
            /\ pc' = [pc EXCEPT ![c] = "done"]
            /\ ret' = [ret EXCEPT ![c] = RetError("Raw", "body_error", now)]
            /\ UNCHANGED <<ticket, issued, io, fresh>>
       ELSE IF parseWsaaResponse(body) # "ticket"
            THEN /\ pc' = [pc EXCEPT ![c] = "done"]
                 /\ ret' = [ret EXCEPT ![c] =
                               RetError("Auth", parseWsaaResponse(body), now)]
                 /\ UNCHANGED <<ticket, issued, io, fresh>>
            ELSE LET t == [token |-> issued + 1, expirationTime |-> now + life,
                           service |-> ConfigService] IN
                 /\ issued < MaxTickets
                 /\ issued' = issued + 1
                 /\ ticket' = t
                 /\ fresh' = [fresh EXCEPT ![c] = t]
                 /\ IF hasStorage
                    THEN /\ pc' = [pc EXCEPT ![c] = "saving"]
                         /\ io' = [io EXCEPT ![c].save = TRUE]
                         /\ ret' = ret
                    ELSE /\ pc' = [pc EXCEPT ![c] = "done"]
                         /\ io' = io
                         /\ ret' = [ret EXCEPT ![c] = RetTicket("wsaa", t, now)]
    /\ UNCHANGED <<now, hasStorage, stored, active>>

WsaaBodyRead(c) ==
    \E readFailed \in BOOLEAN, body \in WsaaBodies, life \in ExpiryOffsets :
        wsaaBodyRead(c, readFailed, body, life)

\* login(), the mutant: the await on storage.save is not inside a try.
storageSaveSettledUncaught(c, failed) ==
    /\ pc[c] = "saving"
    /\ stored' = IF failed THEN stored ELSE fresh[c]
    /\ io' = [io EXCEPT ![c].saveFailed = failed]
    /\ pc' = [pc EXCEPT ![c] = "done"]
    /\ ret' = [ret EXCEPT ![c] =
                 IF failed THEN RetError("Raw", "storage_save", now) ELSE RetTicket("wsaa", fresh[c], now)]
    /\ UNCHANGED <<now, ticket, hasStorage, issued, fresh, active>>

\* The await on storage.save settles; a failure is caught and logged, and
\* login() returns the ticket either way.
storageSaveSettled(c, failed) ==
    /\ pc[c] = "saving"
    /\ stored' = IF failed THEN stored ELSE fresh[c]
    /\ io' = [io EXCEPT ![c].saveFailed = failed]
    /\ pc' = [pc EXCEPT ![c] = "done"]
    /\ ret' = [ret EXCEPT ![c] = RetTicket("wsaa", fresh[c], now)]
    /\ UNCHANGED <<now, ticket, hasStorage, issued, fresh, active>>

StorageSaveSettled(c) == \E failed \in BOOLEAN : storageSaveSettled(c, failed)

\* The caller has its result; the call is over.
LoginReturn(c) ==
    /\ pc[c] = "done"
    /\ pc' = [pc EXCEPT ![c] = "idle"]
    /\ ret' = [ret EXCEPT ![c] = NoRet]
    /\ io' = [io EXCEPT ![c] = NoIO]
    /\ fresh' = [fresh EXCEPT ![c] = NoTicket]
    /\ UNCHANGED <<now, ticket, hasStorage, stored, issued, active>>

\* WsaaService.clearCache -> TicketManager.clearTicket
clearCache ==
    /\ ticket # NoTicket
    /\ ticket' = NoTicket
    /\ UNCHANGED <<now, hasStorage, stored, issued, pc, ret, io, fresh, active>>

\* Time passes.
Tick ==
    /\ now < MaxTicks * MsPerTick
    /\ now' = now + MsPerTick
    /\ UNCHANGED <<ticket, hasStorage, stored, issued, pc, ret, io, fresh, active>>

\* The store belongs to the caller: another process may put a ticket there.
StoreWrittenElsewhere ==
    /\ hasStorage
    /\ \E t \in ForeignTickets :
          /\ stored # [t EXCEPT !.expirationTime = now + t.expirationTime]
          /\ stored' = [t EXCEPT !.expirationTime = now + t.expirationTime]
    /\ UNCHANGED <<now, ticket, hasStorage, issued, pc, ret, io, fresh, active>>

----------------------------------------------------------------------------
(* The awaits of the public operations *)

MaxWaitSteps == 5

MsPerWaitStep == 5 * 1000

\* callArcaApi: const timeout = options.timeout || 15000
DefaultTimeout == 15000

\* WsfeService.checkStatus: timeout: 10000
CheckStatusTimeout == 10000

\* The values of config.timeout: not set, below and above the default.
ConfigTimeouts == {0, MsPerWaitStep, DefaultTimeout + MsPerWaitStep}

\* The public operations and the round trips (callArcaApi calls) each makes.
RoundTrips ==
    [login |-> 1, checkStatus |-> 1, issue |-> 2, getInvoice |-> 1, getPointsOfSale |-> 1]

PublicOps == DOMAIN RoundTrips

\* What each operation passes as options.timeout.
timeoutOption(op, cfg) == IF op = "checkStatus" THEN CheckStatusTimeout ELSE cfg

\* callArcaApi: the delay of setTimeout(() => controller.abort(), timeout).
callArcaApiTimer(option) == IF option = 0 THEN DefaultTimeout ELSE option

\* No public operation is being followed through its awaits.
WaitIdle ==
    /\ wOp = "none"
    /\ wCfg = 0
    /\ wWait = "none"
    /\ wTimer = 0
    /\ wElapsed = 0
    /\ wLeft = 0
    /\ wResult = "none"

\* A public operation starts on an instance configured with timeout cfg.
\* login() with a store configured awaits storage.get first (no timer);
\* every other operation enters callArcaApi.
OpStart ==
    /\ wOp = "none"
    /\ \E op \in PublicOps, cfg \in ConfigTimeouts, withStore \in BOOLEAN :
          /\ withStore => op = "login"
          /\ wOp' = op
          /\ wCfg' = cfg
          /\ wLeft' = RoundTrips[op] - 1
          /\ wWait' = IF withStore THEN "storage_get" ELSE "fetch"
          /\ wTimer' = IF withStore THEN 0 ELSE callArcaApiTimer(timeoutOption(op, cfg))
    /\ wElapsed' = 0
    /\ wResult' = "none"

\* Time passes while the operation is suspended.  An armed timer fires at its
\* delay, so a fetch is never seen pending beyond it.
Elapse ==
    /\ wWait # "none"
    /\ wElapsed < MaxWaitSteps * MsPerWaitStep
    /\ wTimer # 0 => wElapsed + MsPerWaitStep <= wTimer
    /\ wElapsed' = wElapsed + MsPerWaitStep
    /\ UNCHANGED <<wOp, wCfg, wWait, wTimer, wLeft, wResult>>

OpEnds(result) ==
    /\ wResult' = result
    /\ wOp' = "none"
    /\ wWait' = "none"
    /\ wTimer' = 0
    /\ wLeft' = 0
    /\ UNCHANGED <<wCfg, wElapsed>>

\* callArcaApi: the timer fires, controller.abort() rejects the fetch with an
\* AbortError, which becomes ArcaNetworkError.
TimerFires ==
    /\ wWait = "fetch"
    /\ wElapsed >= wTimer
    /\ OpEnds("Network")

\* callArcaApi: the fetch rejects for another reason: ArcaNetworkError.
FetchRejects ==
    /\ wWait = "fetch"
    /\ wElapsed < wTimer
    /\ OpEnds("Network")

\* callArcaApi: the fetch resolves with the response (its headers); the
\* finally block clears the timer; the caller then awaits response.text().
FetchResolves ==
    /\ wWait = "fetch"
    /\ wElapsed < wTimer
    /\ wWait' = "body"
    /\ wTimer' = 0
    /\ wElapsed' = 0
    /\ UNCHANGED <<wOp, wCfg, wLeft, wResult>>

\* `await response.text()` settles: the operation fails, goes on to its next
\* round trip, awaits storage.save (login() with a store), or ends.
BodySettles ==
    /\ wWait = "body"
    /\ \/ OpEnds("Raw")
       \/ /\ wLeft > 0
          /\ wWait' = "fetch"
          /\ wTimer' = callArcaApiTimer(timeoutOption(wOp, wCfg))
          /\ wLeft' = wLeft - 1
          /\ wElapsed' = 0
          /\ UNCHANGED <<wOp, wCfg, wResult>>
       \/ /\ wLeft = 0
          /\ wOp = "login"
          /\ wWait' = "storage_save"
          /\ wElapsed' = 0
          /\ UNCHANGED <<wOp, wCfg, wTimer, wLeft, wResult>>
       \/ /\ wLeft = 0
          /\ OpEnds("ok")

\* The await on storage.get / storage.save settles (resolved or rejected:
\* login() goes on either way).
StorageSettles ==
    \/ /\ wWait = "storage_get"
       /\ \/ /\ wWait' = "fetch"
             /\ wTimer' = callArcaApiTimer(timeoutOption(wOp, wCfg))
             /\ wElapsed' = 0
             /\ UNCHANGED <<wOp, wCfg, wLeft, wResult>>
          \/ OpEnds("ok")
    \/ /\ wWait = "storage_save"
       /\ OpEnds("ok")

----------------------------------------------------------------------------
(* WSFE: documents, items and amounts *)

MaxDocs == 2

WsfeCalls == {"o1", "o2"}

\* InvoiceType
NOTA_DEBITO_A == 2
NOTA_CREDITO_A == 3
FACTURA_B == 6
NOTA_DEBITO_B == 7
NOTA_CREDITO_B == 8
FACTURA_C == 11
NOTA_DEBITO_C == 12
NOTA_CREDITO_C == 13
TICKET_C == 83

DocTypes ==
    {NOTA_DEBITO_A, FACTURA_B, NOTA_CREDITO_B, FACTURA_C, NOTA_DEBITO_C,
     NOTA_CREDITO_C, TICKET_C}

\* validateAssociatedInvoices, the mutant: only the credit notes need an
\* associated document.
needsAssociationCreditOnly(type) ==
    type \in {NOTA_CREDITO_A, NOTA_CREDITO_B, NOTA_CREDITO_C}

\* validateAssociatedInvoices: the types that need an associated document.
needsAssociation(type) ==
    type \in {NOTA_CREDITO_A, NOTA_DEBITO_A, NOTA_CREDITO_B, NOTA_DEBITO_B,
              NOTA_CREDITO_C, NOTA_DEBITO_C}

\* Amounts.  unitPrice and the rounded amounts are in centavos; the unrounded
\* sums are in thousandths of a centavo.  vatRate is in tenths of a percent
\* (210 is 21%, 105 is 10.5%); hasVatRate is FALSE when vatRate is undefined.
\* quantity is a number: quantity / per, with per = 1 for a whole quantity.
Milli == 1000

Item(q, p, has, r) ==
    [quantity |-> q, per |-> 1, unitPrice |-> p, hasVatRate |-> has, vatRate |-> r]

\* An item whose quantity is tenths / 10.
ItemOfTenths(tenths, p, has, r) ==
    [quantity |-> tenths, per |-> 10, unitPrice |-> p, hasVatRate |-> has, vatRate |-> r]

\* item.quantity * price
quantityTimes(item, price) == (item.quantity * price) \div item.per

\* The item lists the callers pass: none, the three-line example
\* (2 x 100 at 21%, 1 x 500 at 10.5%, 10 x 10 without rate), one line at 21%,
\* one line at the unmapped rate 15%, one line of price 0, one line of
\* 0.4 x 100.11 at 10.5%, four lines at 21%, 10.5%, 21% and 0%, and
\* 1 x 10.02 at 21% with 1 x 10.04 at 10.5%.
ItemLists ==
    { << >>,
      << Item(2, 10000, TRUE, 210), Item(1, 50000, TRUE, 105), Item(10, 1000, FALSE, 0) >>,
      << Item(1, 12100, TRUE, 210) >>,
      << Item(1, 10000, TRUE, 150) >>,
      << Item(3, 0, TRUE, 210) >>,
      << ItemOfTenths(4, 10011, TRUE, 105) >>,
      << Item(1, 10000, TRUE, 210), Item(2, 5000, TRUE, 105),
         Item(1, 3333, TRUE, 210), Item(1, 1000, TRUE, 0) >>,
      << Item(1, 1002, TRUE, 210), Item(1, 1004, TRUE, 105) >> }

\* item.vatRate || 0
rateOf(item) == IF item.hasVatRate THEN item.vatRate ELSE 0

\* The net price, the mutant: unitPrice * (1 - rate / 100).
netOfTaxByDiscount(unitPrice, rate) ==
    unitPrice * Milli - unitPrice * rate

\* unitPrice / (1 + rate / 100), to the nearest thousandth of a centavo.
netOfTax(unitPrice, rate) ==
    LET d == Milli + rate
        a == unitPrice * Milli
    IN  (a \div d) * Milli + (((a % d) * Milli + (d \div 2)) \div d)

\* netPrice of calculateSubtotal / calculateVAT / calculateVATByRate.
netPrice(item, includesVAT) ==
    IF includesVAT /\ rateOf(item) # 0
    THEN netOfTax(item.unitPrice, rateOf(item))
    ELSE item.unitPrice * Milli

\* (netSubtotal * rate) / 100
taxOn(netSubtotal, rate) ==
    (netSubtotal \div Milli) * rate + (((netSubtotal % Milli) * rate + (Milli \div 2)) \div Milli)

RECURSIVE calculateSubtotal(_, _)
calculateSubtotal(items, includesVAT) ==
    IF items = << >> THEN 0
    ELSE quantityTimes(Head(items), netPrice(Head(items), includesVAT))
         + calculateSubtotal(Tail(items), includesVAT)

RECURSIVE calculateVAT(_, _)
calculateVAT(items, includesVAT) ==
    IF items = << >> THEN 0
    ELSE taxOn(quantityTimes(Head(items), netPrice(Head(items), includesVAT)),
               rateOf(Head(items)))
         + calculateVAT(Tail(items), includesVAT)

RECURSIVE grossSum(_)
grossSum(items) ==
    IF items = << >> THEN 0
    ELSE quantityTimes(Head(items), Head(items).unitPrice * Milli) + grossSum(Tail(items))

\* calculateTotal, the mutant: the tax is left out of the total of prices
\* net of tax.
calculateTotalWithoutTax(items, includesVAT) ==
    IF includesVAT THEN grossSum(items)
    ELSE calculateSubtotal(items, FALSE)

calculateTotal(items, includesVAT) ==
    IF includesVAT THEN grossSum(items)
    ELSE calculateSubtotal(items, FALSE) + calculateVAT(items, FALSE)

\* round: Math.round(value * 100) / 100, from thousandths of a centavo to
\* centavos (Math.round rounds a half towards +infinity).
round(value) == (value + (Milli \div 2)) \div Milli

\* validateItemsWithVAT: no item lacks vatRate.
validateItemsWithVAT(items) == \A i \in 1..Len(items) : items[i].hasVatRate

\* calculateVATByRate, the mutant: every item gets an entry of its own.
RECURSIVE byRatePerItem(_, _, _)
byRatePerItem(items, includesVAT, acc) ==
    IF items = << >> THEN acc
    ELSE LET item == Head(items)
             rate == rateOf(item)
             base == quantityTimes(item, netPrice(item, includesVAT))
             amount == taxOn(base, rate)
         IN  byRatePerItem(Tail(items), includesVAT,
                           Append(acc, [rate |-> rate, base |-> base, amount |-> amount]))

\* calculateVATByRate: the Map keyed by rate, in insertion order.
RECURSIVE byRate(_, _, _)
byRate(items, includesVAT, acc) ==
    IF items = << >> THEN acc
    ELSE LET item == Head(items)
             rate == rateOf(item)
             base == quantityTimes(item, netPrice(item, includesVAT))
             amount == taxOn(base, rate)
             at == {i \in 1..Len(acc) : acc[i].rate = rate}
         IN  IF at = {}
             THEN byRate(Tail(items), includesVAT,
                         Append(acc, [rate |-> rate, base |-> base, amount |-> amount]))
             ELSE LET i == CHOOSE j \in at : TRUE
                  IN  byRate(Tail(items), includesVAT,
                             [acc EXCEPT ![i] = [rate |-> rate,
                                                 base |-> acc[i].base + base,
                                                 amount |-> acc[i].amount + amount]])

calculateVATByRate(items, includesVAT) ==
    LET m == byRate(items, includesVAT, << >>)
    IN  [i \in 1..Len(m) |->
            [rate |-> m[i].rate, taxBase |-> round(m[i].base), amount |-> round(m[i].amount)]]

\* getVATCode: the remote code of a rate, NoVATCode for a rate not in the map.
NoVATCode == 0

\* getVATCode, the mutant: a rate that is not in the map gets the code of
\* 21% and nothing is thrown.
getVATCodeDefaulting(percentage) ==
    CASE percentage = 0 -> 3
      [] percentage = 105 -> 4
      [] percentage = 210 -> 5
      [] percentage = 270 -> 6
      [] OTHER -> 5

getVATCode(percentage) ==
    CASE percentage = 0 -> 3
      [] percentage = 105 -> 4
      [] percentage = 210 -> 5
      [] percentage = 270 -> 6
      [] OTHER -> NoVATCode

----------------------------------------------------------------------------
(* WSFE: requests, responses and errors *)

\* The totals passed to issueSimpleReceipt (centavos).
SimpleTotals == {0, 150000}

Params(w, ty, t, l, a, inc) ==
    [wrapper |-> w, type |-> ty, total |-> t, items |-> l,
     associatedInvoices |-> a, includesVAT |-> inc]

NoParams == Params("none", 0, 0, << >>, FALSE, FALSE)

\* What the callers pass to the public issue* operations.  associatedInvoices
\* is TRUE for a non-empty list.
IssueParams ==
    {Params("issueSimpleReceipt", TICKET_C, t, << >>, FALSE, FALSE) : t \in SimpleTotals}
    \cup {Params("issueReceipt", TICKET_C, 0, l, FALSE, FALSE) : l \in ItemLists}
    \cup {Params("issueInvoiceWithVAT", ty, 0, l, a, inc) :
            ty \in {FACTURA_B, NOTA_CREDITO_B, NOTA_DEBITO_A}, l \in ItemLists,
            a \in BOOLEAN, inc \in BOOLEAN}
    \cup {Params("issueInvoiceWithoutVAT", ty, 0, l, a, FALSE) :
            ty \in {FACTURA_C, NOTA_CREDITO_C, NOTA_DEBITO_C}, l \in ItemLists,
            a \in BOOLEAN}

QueryOps == {"getInvoice", "getPointsOfSale"}

\* The IssueInvoiceRequest each wrapper hands to issueDocument.
documentRequest(p) ==
    CASE p.wrapper = "issueSimpleReceipt" ->
            [type |-> p.type, total |-> p.total, items |-> << >>,
             vatData |-> << >>, includesVAT |-> FALSE]
      [] p.wrapper = "issueReceipt" ->
            [type |-> p.type, total |-> round(calculateTotal(p.items, FALSE)),
             items |-> << >>, vatData |-> << >>, includesVAT |-> FALSE]
      [] p.wrapper = "issueInvoiceWithVAT" ->
            [type |-> p.type, total |-> 0, items |-> p.items,
             vatData |-> calculateVATByRate(p.items, p.includesVAT),
             includesVAT |-> p.includesVAT]
      [] OTHER ->
            [type |-> p.type, total |-> round(calculateTotal(p.items, FALSE)),
             items |-> p.items, vatData |-> << >>, includesVAT |-> FALSE]

\* The remote error lists (Errors.Err): one error or several.
Err(code, msg) == [Code |-> code, Msg |-> msg]

ErrLists ==
    { << Err(600, "no autorizado") >>,
      << Err(10048, "punto de venta no registrado"), Err(600, "no autorizado") >>,
      << Err(9999, "otro") >> }

\* ARCA_ERROR_HINTS: the numeric codes that have a hint; a hint is identified
\* by its code.
ARCA_ERROR_HINTS ==
    {501, 502, 503, 1000, 1001, 1003, 1005, 10048, 10049, 10015, 10016,
     600, 601, 602, 10043, 10044}

NoHint == 0

getArcaHint(code) == IF code \in ARCA_ERROR_HINTS THEN code ELSE NoHint

\* A response body as parseXml presents it: the *Result element, its Errors,
\* CbteNro (last-number query), the first FECAEDetResponse (authorize), and
\* whether Envelope.Body.Fault is there.
Body(res, errs, hasNro, nro, hasDet, resultado, desde, obs) ==
    [hasResult |-> res, Errors |-> errs, hasCbteNro |-> hasNro, CbteNro |-> nro,
     hasDet |-> hasDet, Resultado |-> resultado, CbteDesde |-> desde,
     Observaciones |-> obs, hasFault |-> FALSE]

NoBody == Body(FALSE, << >>, FALSE, 0, FALSE, "none", 0, << >>)

UnrecognizedBody == NoBody

\* A SOAP Fault: Envelope.Body.Fault and no result element.
FaultBody == [NoBody EXCEPT !.hasFault = TRUE]

FaultString == "fault del servidor"

ErrorBodies == {Body(TRUE, e, FALSE, 0, FALSE, "none", 0, << >>) : e \in ErrLists}

\* What an operation settles with.
NoValue == [invoiceNumber |-> 0, result |-> "none", observations |-> << >>,
            hasQrUrl |-> FALSE]

OpNoRet ==
    [kind |-> "none", error |-> "none", message |-> << >>, details |-> << >>,
     hint |-> NoHint, value |-> NoValue]

\* new ArcaError(message, code, details, hint) and its subclasses
\* (code VALIDATION_ERROR, NETWORK_ERROR); any other exception has code "none".
ArcaError(message, code, details, hint) ==
    [kind |-> "error", error |-> code, message |-> message, details |-> details,
     hint |-> hint, value |-> NoValue]

OpValue(v) ==
    [kind |-> "value", error |-> "none", message |-> << >>, details |-> << >>,
     hint |-> NoHint, value |-> v]

\* The error thrown for a non-empty data.Errors, with getArcaHint.
remoteError(errors) ==
    ArcaError(<<"Error ARCA: ", Head(errors).Msg>>, "ARCA_ERROR", errors,
              getArcaHint(Head(errors).Code))

\* The error thrown for a non-empty data.Errors, without a hint.
remoteErrorNoHint(errors) ==
    ArcaError(<<"Error ARCA: ", Head(errors).Msg>>, "ARCA_ERROR", errors, NoHint)

\* What callArcaApi throws, and what a failed body read throws.
networkError(outcome) == ArcaError(<<outcome>>, "NETWORK_ERROR", << >>, NoHint)

httpError == ArcaError(<<"Error HTTP">>, "HTTP_ERROR", << >>, NoHint)

bodyReadError == ArcaError(<<"body">>, "none", << >>, NoHint)

validationError(message) == ArcaError(<<message>>, "VALIDATION_ERROR", << >>, NoHint)

\* The authorize request: the fields of buildCAERequest the model follows
\* (amounts in centavos, printed with toFixed(2)).
NoSent == [CbteTipo |-> 0, CbteDesde |-> 0, CbteHasta |-> 0,
           ImpTotal |-> 0, ImpNeto |-> 0, ImpIVA |-> 0, Iva |-> << >>]

\* What a call has done so far.
NoLog ==
    [net |-> 0, authorize |-> 0, lastFetch |-> "none", last |-> "none",
     hasReported |-> FALSE, reported |-> 0, errors |-> << >>,
     submitFetch |-> "none", submit |-> "none", sent |-> NoSent, body |-> NoBody,
     fault |-> FALSE, approved |-> FALSE]

----------------------------------------------------------------------------
(* WSFE: the operations of WsfeService *)

\* Documents the remote service has authorized at the point of sale.
docsIssued ==
    remoteLast[NOTA_DEBITO_A] + remoteLast[FACTURA_B] + remoteLast[NOTA_CREDITO_B]
    + remoteLast[FACTURA_C] + remoteLast[NOTA_DEBITO_C] + remoteLast[NOTA_CREDITO_C]
    + remoteLast[TICKET_C]

\* The operation rejects with err.
opFails(o, err, log) ==
    /\ opPc' = [opPc EXCEPT ![o] = "done"]
    /\ opRet' = [opRet EXCEPT ![o] = err]
    /\ opLog' = [opLog EXCEPT ![o] = log]

\* issueDocument up to its first await: getNextInvoiceNumber enters
\* callArcaApi (FECompUltimoAutorizado).
issueDocumentStart(o) ==
    /\ opPc' = [opPc EXCEPT ![o] = "lastNumber_fetch"]
    /\ opLog' = [opLog EXCEPT ![o] = [NoLog EXCEPT !.net = 1]]
    /\ opRet' = [opRet EXCEPT ![o] = OpNoRet]

\* The public issue* operations up to the first await: the checks of
\* issueInvoiceWithVAT / issueInvoiceWithoutVAT, then issueDocument.
issueStart(o, p) ==
    /\ opPc[o] = "idle"
    /\ opParams' = [opParams EXCEPT ![o] = p]
    /\ IF p.wrapper = "issueInvoiceWithVAT" /\ ~validateItemsWithVAT(p.items)
       THEN opFails(o, validationError("vatRate requerido"), NoLog)
       ELSE IF /\ p.wrapper \in {"issueInvoiceWithVAT", "issueInvoiceWithoutVAT"}
               /\ needsAssociation(p.type)
               /\ ~p.associatedInvoices
            THEN opFails(o, validationError("comprobante asociado requerido"), NoLog)
            ELSE issueDocumentStart(o)
    /\ UNCHANGED <<remoteLast, wsfeActive>>

IssueStart(o) == \E p \in IssueParams : issueStart(o, p)

\* What the remote service answers to FECompUltimoAutorizado for a type.
LastNumberBodies(type) ==
    {Body(TRUE, << >>, TRUE, remoteLast[type], FALSE, "none", 0, << >>)}
    \cup ErrorBodies \cup {UnrecognizedBody, FaultBody}

\* The mutant: the HTTP status of the last-number response is not looked at.
lastNumberFetchSettledIgnoreStatus(o, outcome) ==
    /\ opPc[o] = "lastNumber_fetch"
    /\ LET log == [opLog[o] EXCEPT !.lastFetch = outcome]
       IN  IF outcome \in {"transport", "timeout"}
           THEN opFails(o, networkError(outcome), log)
           ELSE \E body \in LastNumberBodies(opParams[o].type) :
                   /\ opPc' = [opPc EXCEPT ![o] = "lastNumber_body"]
                   /\ opLog' = [opLog EXCEPT ![o] = [log EXCEPT !.body = body]]
                   /\ UNCHANGED opRet
    /\ UNCHANGED <<remoteLast, wsfeActive, opParams>>

\* getNextInvoiceNumber: `await callArcaApi` settles; !response.ok throws.
lastNumberFetchSettled(o, outcome) ==
    /\ opPc[o] = "lastNumber_fetch"
    /\ LET log == [opLog[o] EXCEPT !.lastFetch = outcome]
       IN  IF outcome \in {"transport", "timeout"}
           THEN opFails(o, networkError(outcome), log)
           ELSE IF outcome = "http_error"
           THEN opFails(o, httpError, log)
           ELSE \E body \in LastNumberBodies(opParams[o].type) :
                   /\ opPc' = [opPc EXCEPT ![o] = "lastNumber_body"]
                   /\ opLog' = [opLog EXCEPT ![o] = [log EXCEPT !.body = body]]
                   /\ UNCHANGED opRet
    /\ UNCHANGED <<remoteLast, wsfeActive, opParams>>

LastNumberFetchSettled(o) ==
    \E outcome \in FetchOutcomes : lastNumberFetchSettled(o, outcome)

\* The mutant: the last authorized number itself is used.
nextInvoiceNumberNoIncrement(body) ==
    IF body.hasResult /\ body.hasCbteNro THEN body.CbteNro ELSE 1

\* getNextInvoiceNumber: typeof lastNumber === 'number' ? lastNumber + 1 : 1
nextInvoiceNumber(body) ==
    IF body.hasResult /\ body.hasCbteNro THEN body.CbteNro + 1 ELSE 1

\* issueDocument from the number to the next await: the totals, the check of
\* the total, buildCAERequest (getVATCode) and callArcaApi (FECAESolicitar).
issueDocumentContinue(o, invoiceNumber, log) ==
    LET request == documentRequest(opParams[o])
        hasItems == Len(request.items) > 0
        net == IF hasItems
               THEN round(calculateSubtotal(request.items, request.includesVAT))
               ELSE request.total
        vat == IF hasItems
               THEN round(calculateVAT(request.items, request.includesVAT))
               ELSE 0
        total == IF hasItems
                 THEN round(calculateTotal(request.items, request.includesVAT))
                 ELSE request.total
        vatData == request.vatData
    IN  IF total <= 0
        THEN opFails(o, validationError("total debe ser mayor a 0"), log)
        ELSE IF \E i \in 1..Len(vatData) : getVATCode(vatData[i].rate) = NoVATCode
        THEN opFails(o, validationError("alicuota invalida"), log)
        ELSE /\ opPc' = [opPc EXCEPT ![o] = "authorize_fetch"]
             /\ opLog' = [opLog EXCEPT ![o] =
                    [log EXCEPT
                        !.net = @ + 1,
                        !.authorize = @ + 1,
                        !.sent = [CbteTipo |-> request.type,
                                  CbteDesde |-> invoiceNumber,
                                  CbteHasta |-> invoiceNumber,
                                  ImpTotal |-> total,
                                  ImpNeto |-> net,
                                  ImpIVA |-> vat,
                                  Iva |-> [i \in 1..Len(vatData) |->
                                             [Id |-> getVATCode(vatData[i].rate),
                                              BaseImp |-> vatData[i].taxBase,
                                              Importe |-> vatData[i].amount]]]]]
             /\ UNCHANGED opRet

\* getNextInvoiceNumber: `await response.text()` settles; the Errors of the
\* response throw; otherwise issueDocument goes on with the number.
lastNumberBodyRead(o, readFailed) ==
    /\ opPc[o] = "lastNumber_body"
    /\ LET body == opLog[o].body
           log == [opLog[o] EXCEPT !.body = NoBody,
                                   !.fault = @ \/ (~readFailed /\ body.hasFault)]
       IN  IF readFailed
           THEN opFails(o, bodyReadError, [log EXCEPT !.last = "body_error"])
           ELSE IF body.hasResult /\ body.Errors # << >>
           THEN opFails(o, remoteError(body.Errors),
                        [log EXCEPT !.last = "errors", !.errors = body.Errors])
           ELSE issueDocumentContinue(o, nextInvoiceNumber(body),
                        [log EXCEPT !.last = "answered",
                                    !.hasReported = body.hasResult /\ body.hasCbteNro,
                                    !.reported = body.CbteNro])
    /\ UNCHANGED <<remoteLast, wsfeActive, opParams>>

LastNumberBodyRead(o) == \E readFailed \in BOOLEAN : lastNumberBodyRead(o, readFailed)

\* What the remote service answers to FECAESolicitar: an approval (only of
\* the number after its last one), a rejection, an error list, or a response
\* of another structure.
ApprovedBodies(sent) ==
    {Body(TRUE, << >>, FALSE, 0, TRUE, "A", sent.CbteDesde, obs) :
        obs \in {<< >>, <<"obs1">>}}

NotApprovedBodies(sent) ==
    {Body(TRUE, << >>, FALSE, 0, TRUE, "R", sent.CbteDesde, <<"obs1", "obs2">>),
     Body(TRUE, << >>, FALSE, 0, FALSE, "none", 0, << >>),
     UnrecognizedBody, FaultBody}
    \cup ErrorBodies

\* issueDocument: `await callArcaApi` (FECAESolicitar) settles.  The remote
\* service may have authorized the document whatever reaches the caller.
authorizeFetchSettled(o, outcome) ==
    /\ opPc[o] = "authorize_fetch"
    /\ LET sent == opLog[o].sent
       IN  \E approved \in BOOLEAN :
           LET log == [opLog[o] EXCEPT !.submitFetch = outcome,
                                       !.approved = approved]
           IN /\ approved => /\ sent.CbteDesde = remoteLast[sent.CbteTipo] + 1
                             /\ docsIssued < MaxDocs
                             /\ outcome # "http_error"
              /\ remoteLast' = IF approved
                               THEN [remoteLast EXCEPT ![sent.CbteTipo] = sent.CbteDesde]
                               ELSE remoteLast
              /\ IF outcome \in {"transport", "timeout"}
                 THEN opFails(o, networkError(outcome), log)
                 ELSE IF outcome = "http_error"
                 THEN opFails(o, httpError, log)
                 ELSE \E body \in (IF approved THEN ApprovedBodies(sent)
                                   ELSE NotApprovedBodies(sent)) :
                         /\ opPc' = [opPc EXCEPT ![o] = "authorize_body"]
                         /\ opLog' = [opLog EXCEPT ![o] = [log EXCEPT !.body = body]]
                         /\ UNCHANGED opRet
    /\ UNCHANGED <<wsfeActive, opParams>>

AuthorizeFetchSettled(o) ==
    \E outcome \in FetchOutcomes : authorizeFetchSettled(o, outcome)

\* parseCAEResponse, the mutant: the result is reported as approved whatever
\* det.Resultado says.
parseCAEResponseAlwaysApproved(body) ==
    IF ~body.hasResult
    THEN ArcaError(<<"estructura no reconocida">>, "PARSE_ERROR", << >>, NoHint)
    ELSE IF body.Errors # << >>
    THEN remoteError(body.Errors)
    ELSE IF ~body.hasDet
    THEN ArcaError(<<"falta detalle del comprobante">>, "PARSE_ERROR", << >>, NoHint)
    ELSE OpValue([invoiceNumber |-> body.CbteDesde,
                  result |-> "A",
                  observations |-> body.Observaciones,
                  hasQrUrl |-> FALSE])

\* parseCAEResponse, the mutant: a detail whose Resultado is not "A" is
\* thrown as an error of the remote service.
parseCAEResponseThrowsRejected(body) ==
    IF ~body.hasResult
    THEN ArcaError(<<"estructura no reconocida">>, "PARSE_ERROR", << >>, NoHint)
    ELSE IF body.Errors # << >>
    THEN remoteError(body.Errors)
    ELSE IF ~body.hasDet
    THEN ArcaError(<<"falta detalle del comprobante">>, "PARSE_ERROR", << >>, NoHint)
    ELSE IF body.Resultado # "A"
    THEN ArcaError(<<"Comprobante rechazado">>, "ARCA_ERROR", body.Observaciones, NoHint)
    ELSE OpValue([invoiceNumber |-> body.CbteDesde,
                  result |-> body.Resultado,
                  observations |-> body.Observaciones,
                  hasQrUrl |-> FALSE])

\* parseCAEResponse
parseCAEResponse(body) ==
    IF ~body.hasResult
    THEN ArcaError(<<"estructura no reconocida">>, "PARSE_ERROR", << >>, NoHint)
    ELSE IF body.Errors # << >>
    THEN remoteError(body.Errors)
    ELSE IF ~body.hasDet
    THEN ArcaError(<<"falta detalle del comprobante">>, "PARSE_ERROR", << >>, NoHint)
    ELSE OpValue([invoiceNumber |-> body.CbteDesde,
                  result |-> body.Resultado,
                  observations |-> body.Observaciones,
                  hasQrUrl |-> FALSE])

\* issueDocument: `await response.text()` settles; parseCAEResponse, then
\* generateQRUrl and the composed response.
authorizeBodyRead(o, readFailed) ==
    /\ opPc[o] = "authorize_body"
    /\ LET body == opLog[o].body
           log == [opLog[o] EXCEPT !.body = NoBody,
                                   !.fault = @ \/ (~readFailed /\ body.hasFault)]
           parsed == parseCAEResponse(body)
       IN  IF readFailed
           THEN opFails(o, bodyReadError, [log EXCEPT !.submit = "body_error"])
           ELSE IF parsed.kind = "error"
           THEN opFails(o, parsed,
                        [log EXCEPT !.submit = "rejected",
                                    !.errors = IF body.hasResult THEN body.Errors ELSE << >>])
           ELSE /\ opPc' = [opPc EXCEPT ![o] = "done"]
                /\ opRet' = [opRet EXCEPT ![o] =
                                OpValue([parsed.value EXCEPT !.hasQrUrl = TRUE])]
                /\ opLog' = [opLog EXCEPT ![o] = [log EXCEPT !.submit = "answered"]]
    /\ UNCHANGED <<remoteLast, wsfeActive, opParams>>

AuthorizeBodyRead(o) == \E readFailed \in BOOLEAN : authorizeBodyRead(o, readFailed)

\* getInvoice / getPointsOfSale up to the await on callArcaApi.
queryStart(o, op) ==
    /\ opPc[o] = "idle"
    /\ opParams' = [opParams EXCEPT ![o] = Params(op, 0, 0, << >>, FALSE, FALSE)]
    /\ opPc' = [opPc EXCEPT ![o] = "query_fetch"]
    /\ opLog' = [opLog EXCEPT ![o] = [NoLog EXCEPT !.net = 1]]
    /\ opRet' = [opRet EXCEPT ![o] = OpNoRet]
    /\ UNCHANGED <<remoteLast, wsfeActive>>

QueryStart(o) == \E op \in QueryOps : queryStart(o, op)

\* What the remote service answers to FECompConsultar / FEParamGetPtosVenta.
QueryBodies ==
    {Body(TRUE, << >>, FALSE, 0, TRUE, "A", 1, << >>), UnrecognizedBody, FaultBody}
    \cup ErrorBodies

\* getInvoice / getPointsOfSale: `await callArcaApi` settles.
queryFetchSettled(o, outcome) ==
    /\ opPc[o] = "query_fetch"
    /\ LET log == [opLog[o] EXCEPT !.submitFetch = outcome]
       IN  IF outcome \in {"transport", "timeout"}
           THEN opFails(o, networkError(outcome), log)
           ELSE IF outcome = "http_error"
           THEN opFails(o, httpError, log)
           ELSE \E body \in QueryBodies :
                   /\ opPc' = [opPc EXCEPT ![o] = "query_body"]
                   /\ opLog' = [opLog EXCEPT ![o] = [log EXCEPT !.body = body]]
                   /\ UNCHANGED opRet
    /\ UNCHANGED <<remoteLast, wsfeActive, opParams>>

QueryFetchSettled(o) == \E outcome \in FetchOutcomes : queryFetchSettled(o, outcome)

\* getInvoice / getPointsOfSale: `await response.text()` settles; a missing
\* result is a PARSE_ERROR; the Errors of the response throw, with the hint
\* of the first code in getInvoice and with no hint in getPointsOfSale.
queryBodyRead(o, readFailed) ==
    /\ opPc[o] = "query_body"
    /\ LET body == opLog[o].body
           log == [opLog[o] EXCEPT !.body = NoBody,
                                   !.fault = @ \/ (~readFailed /\ body.hasFault)]
       IN  IF readFailed
           THEN opFails(o, bodyReadError, [log EXCEPT !.submit = "body_error"])
           ELSE IF ~body.hasResult
           THEN opFails(o, ArcaError(<<"respuesta invalida">>, "PARSE_ERROR", << >>, NoHint),
                        [log EXCEPT !.submit = "rejected"])
           ELSE IF body.Errors # << >>
           THEN opFails(o,
                        IF opParams[o].wrapper = "getInvoice"
                        THEN remoteError(body.Errors)
                        ELSE remoteErrorNoHint(body.Errors),
                        [log EXCEPT !.submit = "rejected", !.errors = body.Errors])
           ELSE /\ opPc' = [opPc EXCEPT ![o] = "done"]
                /\ opRet' = [opRet EXCEPT ![o] = OpValue(NoValue)]
                /\ opLog' = [opLog EXCEPT ![o] = [log EXCEPT !.submit = "answered"]]
    /\ UNCHANGED <<remoteLast, wsfeActive, opParams>>

QueryBodyRead(o) == \E readFailed \in BOOLEAN : queryBodyRead(o, readFailed)

\* The caller has the outcome of the operation; the call is over.
OpReturn(o) ==
    /\ opPc[o] = "done"
    /\ opPc' = [opPc EXCEPT ![o] = "idle"]
    /\ opParams' = [opParams EXCEPT ![o] = NoParams]
    /\ opLog' = [opLog EXCEPT ![o] = NoLog]
    /\ opRet' = [opRet EXCEPT ![o] = OpNoRet]
    /\ UNCHANGED <<remoteLast, wsfeActive>>

\* Another process authorizes a document at the same point of sale.
IssuedElsewhere ==
    /\ docsIssued < MaxDocs
    /\ \E type \in DocTypes : remoteLast' = [remoteLast EXCEPT ![type] = @ + 1]
    /\ UNCHANGED <<wsfeActive, opPc, opParams, opLog, opRet>>

\* No WsfeService operation is in progress.
WsfeIdle ==
    /\ remoteLast = [type \in DocTypes |-> 0]
    /\ opPc = [o \in WsfeCalls |-> "idle"]
    /\ opParams = [o \in WsfeCalls |-> NoParams]
    /\ opLog = [o \in WsfeCalls |-> NoLog]
    /\ opRet = [o \in WsfeCalls |-> OpNoRet]

----------------------------------------------------------------------------
(* The QR URL: generarUrlQR *)

\* Text is a sequence of character codes.  The printable ASCII characters,
\* from code 32 on (the grave accent, code 96, by its name):
AsciiTable ==
    << " ", "!", "\"", "#", "$", "%", "&", "'", "(", ")", "*", "+", ",", "-", ".", "/",
       "0", "1", "2", "3", "4", "5", "6", "7", "8", "9", ":", ";", "<", "=", ">", "?",
       "@", "A", "B", "C", "D", "E", "F", "G", "H", "I", "J", "K", "L", "M", "N", "O",
       "P", "Q", "R", "S", "T", "U", "V", "W", "X", "Y", "Z", "[", "\\", "]", "^", "_",
       "grave", "a", "b", "c", "d", "e", "f", "g", "h", "i", "j", "k", "l", "m", "n", "o",
       "p", "q", "r", "s", "t", "u", "v", "w", "x", "y", "z", "{", "|", "}", "~" >>

codeOf(ch) == 31 + (CHOOSE i \in 1..Len(AsciiTable) : AsciiTable[i] = ch)

\* The text of a string literal, given character by character.
Text(chars) == [i \in 1..Len(chars) |-> codeOf(chars[i])]

isDigit(c) == c >= codeOf("0") /\ c <= codeOf("9")

\* s.replace(/\D/g, '')
digitsOnly(s) == SelectSeq(s, isDigit)

\* String(n) of a non-negative integer.
RECURSIVE decimal(_)
decimal(n) ==
    IF n < 10 THEN <<codeOf("0") + n>>
    ELSE decimal(n \div 10) \o <<codeOf("0") + (n % 10)>>

\* JSON.stringify(Number(digits)) of a string of digits: the digits without
\* leading zeros; 0 for the empty string.
RECURSIVE numberOfDigits(_)
numberOfDigits(s) ==
    IF s = << >> THEN Text(<<"0">>)
    ELSE IF Head(s) = codeOf("0") /\ Len(s) > 1 THEN numberOfDigits(Tail(s))
    ELSE s

\* JSON.stringify(Number(parseFloat(total.toFixed(2)))) of a total in
\* centavos: no decimals when whole, else one or two.
importeText(cents) ==
    LET whole == decimal(cents \div 100)
        frac == cents % 100
    IN  IF frac = 0 THEN whole
        ELSE IF frac % 10 = 0 THEN whole \o Text(<<".">>) \o decimal(frac \div 10)
        ELSE whole \o Text(<<".">>) \o decimal(frac \div 10) \o decimal(frac % 10)

\* fecha: YYYYMMDD becomes YYYY-MM-DD; anything else is left as it is.
fechaFormat(fDate) ==
    IF Len(fDate) = 8
    THEN SubSeq(fDate, 1, 4) \o Text(<<"-">>) \o SubSeq(fDate, 5, 6)
         \o Text(<<"-">>) \o SubSeq(fDate, 7, 8)
    ELSE fDate

\* TaxIdType
FINAL_CONSUMER == 99
DNI == 96
CUIT == 80

NoComprador == [present |-> FALSE, tipoDocumento |-> 0, nroDocumento |-> << >>]

Comprador(tipo, nro) == [present |-> TRUE, tipoDocumento |-> tipo, nroDocumento |-> nro]

\* comprador?.tipoDocumento || CONSUMIDOR_FINAL
docTipoOf(comprador) ==
    IF comprador.present /\ comprador.tipoDocumento # 0
    THEN comprador.tipoDocumento ELSE FINAL_CONSUMER

\* comprador?.nroDocumento ? comprador.nroDocumento.replace(/\D/g, '') : '0'
docNroOf(comprador) ==
    IF comprador.present /\ comprador.nroDocumento # << >>
    THEN digitsOnly(comprador.nroDocumento) ELSE Text(<<"0">>)

\* "key":
Key(chars) == Text(<<"\"">>) \o Text(chars) \o Text(<<"\"", ":">>)

Comma == Text(<<",">>)

Quoted(s) == Text(<<"\"">>) \o s \o Text(<<"\"">>)

\* generarUrlQR, the mutant: the buyer's fields are set after tipoCodAut and
\* codAut.
qrJsonReceptorLast(in) ==
    LET docTipo == docTipoOf(in.comprador)
        docNro == docNroOf(in.comprador)
        receptor ==
            IF docTipo # FINAL_CONSUMER \/ numberOfDigits(docNro) # Text(<<"0">>)
            THEN Comma \o Key(<<"t","i","p","o","D","o","c","R","e","c">>) \o decimal(docTipo)
                 \o Comma \o Key(<<"n","r","o","D","o","c","R","e","c">>)
                 \o numberOfDigits(docNro)
            ELSE << >>
    IN  Text(<<"{">>)
        \o Key(<<"v","e","r">>) \o decimal(1)
        \o Comma \o Key(<<"f","e","c","h","a">>) \o Quoted(fechaFormat(in.fecha))
        \o Comma \o Key(<<"c","u","i","t">>) \o numberOfDigits(digitsOnly(in.cuitEmisor))
        \o Comma \o Key(<<"p","t","o","V","t","a">>) \o decimal(in.puntoVenta)
        \o Comma \o Key(<<"t","i","p","o","C","m","p">>) \o decimal(in.tipoComprobante)
        \o Comma \o Key(<<"n","r","o","C","m","p">>) \o decimal(in.nroComprobante)
        \o Comma \o Key(<<"i","m","p","o","r","t","e">>) \o importeText(in.total)
        \o Comma \o Key(<<"m","o","n","e","d","a">>) \o Quoted(Text(<<"P","E","S">>))
        \o Comma \o Key(<<"c","t","z">>) \o decimal(1)
        \o Comma \o Key(<<"t","i","p","o","C","o","d","A","u","t">>) \o Quoted(Text(<<"E">>))
        \o Comma \o Key(<<"c","o","d","A","u","t">>) \o numberOfDigits(digitsOnly(in.cae))
        \o receptor
        \o Text(<<"}">>)

\* generarUrlQR, the mutant: the buyer's fields are left out for every final
\* consumer, whatever the document number.
qrJsonByTypeOnly(in) ==
    LET docTipo == docTipoOf(in.comprador)
        docNro == docNroOf(in.comprador)
        receptor ==
            IF docTipo # FINAL_CONSUMER
            THEN Comma \o Key(<<"t","i","p","o","D","o","c","R","e","c">>) \o decimal(docTipo)
                 \o Comma \o Key(<<"n","r","o","D","o","c","R","e","c">>)
                 \o numberOfDigits(docNro)
            ELSE << >>
    IN  Text(<<"{">>)
        \o Key(<<"v","e","r">>) \o decimal(1)
        \o Comma \o Key(<<"f","e","c","h","a">>) \o Quoted(fechaFormat(in.fecha))
        \o Comma \o Key(<<"c","u","i","t">>) \o numberOfDigits(digitsOnly(in.cuitEmisor))
        \o Comma \o Key(<<"p","t","o","V","t","a">>) \o decimal(in.puntoVenta)
        \o Comma \o Key(<<"t","i","p","o","C","m","p">>) \o decimal(in.tipoComprobante)
        \o Comma \o Key(<<"n","r","o","C","m","p">>) \o decimal(in.nroComprobante)
        \o Comma \o Key(<<"i","m","p","o","r","t","e">>) \o importeText(in.total)
        \o Comma \o Key(<<"m","o","n","e","d","a">>) \o Quoted(Text(<<"P","E","S">>))
        \o Comma \o Key(<<"c","t","z">>) \o decimal(1)
        \o receptor
        \o Comma \o Key(<<"t","i","p","o","C","o","d","A","u","t">>) \o Quoted(Text(<<"E">>))
        \o Comma \o Key(<<"c","o","d","A","u","t">>) \o numberOfDigits(digitsOnly(in.cae))
        \o Text(<<"}">>)

\* JSON.stringify(qrObj): the properties in the order they were set.
qrJson(in) ==
    LET docTipo == docTipoOf(in.comprador)
        docNro == docNroOf(in.comprador)
        receptor ==
            IF docTipo # FINAL_CONSUMER \/ numberOfDigits(docNro) # Text(<<"0">>)
            THEN Comma \o Key(<<"t","i","p","o","D","o","c","R","e","c">>) \o decimal(docTipo)
                 \o Comma \o Key(<<"n","r","o","D","o","c","R","e","c">>)
                 \o numberOfDigits(docNro)
            ELSE << >>
    IN  Text(<<"{">>)
        \o Key(<<"v","e","r">>) \o decimal(1)
        \o Comma \o Key(<<"f","e","c","h","a">>) \o Quoted(fechaFormat(in.fecha))
        \o Comma \o Key(<<"c","u","i","t">>) \o numberOfDigits(digitsOnly(in.cuitEmisor))
        \o Comma \o Key(<<"p","t","o","V","t","a">>) \o decimal(in.puntoVenta)
        \o Comma \o Key(<<"t","i","p","o","C","m","p">>) \o decimal(in.tipoComprobante)
        \o Comma \o Key(<<"n","r","o","C","m","p">>) \o decimal(in.nroComprobante)
        \o Comma \o Key(<<"i","m","p","o","r","t","e">>) \o importeText(in.total)
        \o Comma \o Key(<<"m","o","n","e","d","a">>) \o Quoted(Text(<<"P","E","S">>))
        \o Comma \o Key(<<"c","t","z">>) \o decimal(1)
        \o receptor
        \o Comma \o Key(<<"t","i","p","o","C","o","d","A","u","t">>) \o Quoted(Text(<<"E">>))
        \o Comma \o Key(<<"c","o","d","A","u","t">>) \o numberOfDigits(digitsOnly(in.cae))
        \o Text(<<"}">>)

\* The base64 alphabet.
Base64Table ==
    Text(<< "A", "B", "C", "D", "E", "F", "G", "H", "I", "J", "K", "L", "M", "N", "O", "P",
            "Q", "R", "S", "T", "U", "V", "W", "X", "Y", "Z", "a", "b", "c", "d", "e", "f",
            "g", "h", "i", "j", "k", "l", "m", "n", "o", "p", "q", "r", "s", "t", "u", "v",
            "w", "x", "y", "z", "0", "1", "2", "3", "4", "5", "6", "7", "8", "9", "+", "/" >>)

b64(n) == Base64Table[n + 1]

Pad == codeOf("=")

\* Buffer.from(s).toString('base64'): each group of three bytes gives four
\* characters; a last group of one or two bytes is padded with '='.
toBase64(s) ==
    LET n == Len(s)
        byte(i) == IF i <= n THEN s[i] ELSE 0
        char(k) ==
            LET g == (k - 1) \div 4
                b1 == byte(3 * g + 1)
                b2 == byte(3 * g + 2)
                b3 == byte(3 * g + 3)
            IN  CASE (k - 1) % 4 = 0 -> b64(b1 \div 4)
                  [] (k - 1) % 4 = 1 -> b64((b1 % 4) * 16 + (b2 \div 16))
                  [] (k - 1) % 4 = 2 ->
                        IF 3 * g + 2 > n THEN Pad ELSE b64((b2 % 16) * 4 + (b3 \div 64))
                  [] OTHER ->
                        IF 3 * g + 3 > n THEN Pad ELSE b64(b3 % 64)
    IN  [k \in 1..(4 * ((n + 2) \div 3)) |-> char(k)]

\* encodeURIComponent leaves A-Z a-z 0-9 - _ . ! ~ * ' ( ) as they are.
isUnreserved(c) ==
    \/ isDigit(c)
    \/ c >= codeOf("A") /\ c <= codeOf("Z")
    \/ c >= codeOf("a") /\ c <= codeOf("z")
    \/ c \in {codeOf("-"), codeOf("_"), codeOf("."), codeOf("!"), codeOf("~"),
              codeOf("*"), codeOf("'"), codeOf("("), codeOf(")")}

HexDigits == Text(<<"0","1","2","3","4","5","6","7","8","9","A","B","C","D","E","F">>)

\* encodeURIComponent of ASCII text: every other character becomes %XX.
RECURSIVE encodeURIComponent(_)
encodeURIComponent(s) ==
    IF s = << >> THEN << >>
    ELSE IF Len(s) = 1
    THEN IF isUnreserved(s[1])
         THEN s
         ELSE <<codeOf("%"), HexDigits[(s[1] \div 16) + 1], HexDigits[(s[1] % 16) + 1]>>
    ELSE encodeURIComponent(SubSeq(s, 1, Len(s) \div 2))
         \o encodeURIComponent(SubSeq(s, (Len(s) \div 2) + 1, Len(s)))

QrPrefix ==
    Text(<<"h","t","t","p","s",":","/","/","w","w","w",".","a","f","i","p",".",
           "g","o","b",".","a","r","/","f","e","/","q","r","/","?","p","=">>)

\* generarUrlQR
generarUrlQR(in) == QrPrefix \o encodeURIComponent(toBase64(qrJson(in)))

\* The calls of generarUrlQR.
QrInputs ==
    [ fecha : {Text(<<"2","0","2","6","0","2","2","0">>),
               Text(<<"2","0","2","6","-","0","2","-","2","0">>)},
      cuitEmisor : {Text(<<"2","0","1","2","3","4","5","6","7","8","9">>),
                    Text(<<"2","0","-","1","2","3","4","5","6","7","8","-","9">>)},
      puntoVenta : {4},
      tipoComprobante : {11},
      nroComprobante : {1, 38, 123},
      total : {5, 150000, 150050},
      comprador : {NoComprador,
                   Comprador(FINAL_CONSUMER, Text(<<"0">>)),
                   Comprador(FINAL_CONSUMER, Text(<<"0","0","-","0">>)),
                   Comprador(FINAL_CONSUMER, Text(<<"s","/","n">>)),
                   Comprador(FINAL_CONSUMER, Text(<<"1","2","3","4","5","6","7","8">>)),
                   Comprador(DNI, Text(<<"0">>)),
                   Comprador(DNI, Text(<<"1","2",".","3","4","5",".","6","7","8">>)),
                   Comprador(CUIT, Text(<<"2","0","9","8","7","6","5","4","3","2","1">>))},
      cae : {Text(<<"1","2","3","4","5","6","7","8","9","0","1","2","3","4">>),
             Text(<<"7","6","-","1","2","3","4","5","6","7","8","9","0","1","2">>)} ]

NoQrInput ==
    [fecha |-> << >>, cuitEmisor |-> << >>, puntoVenta |-> 0, tipoComprobante |-> 0,
     nroComprobante |-> 0, total |-> 0, comprador |-> NoComprador, cae |-> << >>]

\* A caller builds the QR URL of an authorized document.
GenerateQR ==
    /\ qrPc = "idle"
    /\ \E in \in QrInputs :
          /\ qrIn' = in
          /\ qrUrl' = generarUrlQR(in)
    /\ qrPc' = "done"

\* The caller has the URL.
QrReturn ==
    /\ qrPc = "done"
    /\ qrPc' = "idle"
    /\ qrIn' = NoQrInput
    /\ qrUrl' = << >>

\* No QR URL is being built.
QrIdle ==
    /\ qrPc = "idle"
    /\ qrIn = NoQrInput
    /\ qrUrl = << >>

----------------------------------------------------------------------------
(* round: the calls of the exported function *)

MaxHalfCentavos == 25

\* The values passed to round, in thousandths of a centavo: the half
\* centavos up to a bound, of either sign, and the values next to them; and
\* 894.505, 894.504 and 894.500001 (to the thousandth of a centavo).
RoundInputs ==
    {h * (Milli \div 2) + d : h \in (-MaxHalfCentavos)..MaxHalfCentavos, d \in {-1, 0, 1}}
    \cup {89450500, 89450400, 89450000}

\* A caller rounds an amount.
Round ==
    /\ calcPc = "idle"
    /\ \E value \in RoundInputs :
          /\ calcIn' = value
          /\ calcOut' = round(value)
    /\ calcPc' = "done"

\* The caller has the rounded amount.
RoundReturn ==
    /\ calcPc = "done"
    /\ calcPc' = "idle"
    /\ calcIn' = 0
    /\ calcOut' = 0

\* No call of round is in progress.
CalcIdle ==
    /\ calcPc = "idle"
    /\ calcIn = 0
    /\ calcOut = 0

----------------------------------------------------------------------------
(* WsfeService: construction, and the Auth block of the requests *)

\* No config: this.config of an instance that does not exist.
NoConfig ==
    [hasTicket |-> FALSE, token |-> 0, sign |-> 0, expirationTime |-> 0,
     pointOfSale |-> 0]

\* The configs a caller may pass: config.ticket absent (hasTicket FALSE), a
\* ticket whose token is the empty string (token 0), or a ticket of WSAA
\* (token 1 or 2, with its sign) that expires at some instant; and
\* config.pointOfSale absent or zero (0), negative, in range, or too large.
WsfeConfigs ==
    {[hasTicket |-> FALSE, token |-> 0, sign |-> 0, expirationTime |-> 0,
      pointOfSale |-> p] : p \in {0, 1, 10000}}
    \cup {[hasTicket |-> TRUE, token |-> t, sign |-> IF t = 0 THEN 0 ELSE 10 + t,
           expirationTime |-> e, pointOfSale |-> p] :
             t \in 0..2, e \in {MsPerTick, 2 * MsPerTick},
             p \in {-1, 0, 1, 4, 9999, 10000}}

\* Nothing thrown.
NoThrow == OpValue(NoValue)

\* WsfeService.validateConfig, the mutant: the upper limit of the point of
\* sale dropped.
validateConfigNoUpperLimit(config) ==
    IF ~config.hasTicket \/ config.token = 0
    THEN validationError("Ticket WSAA requerido")
    ELSE IF config.pointOfSale = 0 \/ config.pointOfSale < 1
    THEN validationError("Punto de venta invalido")
    ELSE NoThrow

\* WsfeService.validateConfig: what it throws, or NoThrow.
\*   if (!config.ticket || !config.ticket.token) throw ...
\*   if (!config.pointOfSale || config.pointOfSale < 1 || config.pointOfSale > 9999) throw ...
validateConfig(config) ==
    IF ~config.hasTicket \/ config.token = 0
    THEN validationError("Ticket WSAA requerido")
    ELSE IF config.pointOfSale = 0 \/ config.pointOfSale < 1 \/ config.pointOfSale > 9999
    THEN validationError("Punto de venta invalido")
    ELSE NoThrow

\* No request sent yet.
NoRequest == [method |-> "none", Token |-> 0, Sign |-> 0, PtoVta |-> 0, sentAt |-> 0]

\* The requests that carry an Auth block: getInvoice, getPointsOfSale,
\* buildCAERequest and buildLastInvoiceRequest.
AuthMethods ==
    {"FECompConsultar", "FEParamGetPtosVenta", "FECAESolicitar", "FECompUltimoAutorizado"}

\* The Auth block, the mutant: the token is sent only while the ticket has
\* not expired.
authBlockUnexpired(config, n) ==
    IF config.expirationTime > n
    THEN [Token |-> config.token, Sign |-> config.sign]
    ELSE [Token |-> 0, Sign |-> 0]

\* The Auth block of a request:
\*   <ar:Token>${this.config.ticket.token}</ar:Token>
\*   <ar:Sign>${this.config.ticket.sign}</ar:Sign>
authBlock(config, n) == [Token |-> config.token, Sign |-> config.sign]

\* new WsfeService(config): validateConfig(config); this.config = config.
\* When validateConfig throws there is no instance.
WsfeService ==
    /\ instPc = "none"
    /\ \E config \in WsfeConfigs :
          /\ instIn' = config
          /\ instErr' = validateConfig(config)
          /\ IF validateConfig(config).kind = "error"
             THEN /\ instPc' = "none"
                  /\ instConfig' = NoConfig
             ELSE /\ instPc' = "ready"
                  /\ instConfig' = config
    /\ instSent' = instSent
    /\ UNCHANGED now

\* An operation of the instance builds a request and hands it to
\* callArcaApi.
sendRequest ==
    /\ instPc = "ready"
    /\ \E method \in AuthMethods :
          instSent' = [method |-> method,
                       Token |-> authBlock(instConfig, now).Token,
                       Sign |-> authBlock(instConfig, now).Sign,
                       PtoVta |-> IF method = "FEParamGetPtosVenta" THEN 0
                                  ELSE instConfig.pointOfSale,
                       sentAt |-> now]
    /\ UNCHANGED <<now, instPc, instIn, instConfig, instErr>>

\* No WsfeService instance exists.
InstIdle ==
    /\ instPc = "none"
    /\ instIn = NoConfig
    /\ instConfig = NoConfig
    /\ instErr = NoThrow
    /\ instSent = NoRequest

\* No clearCache() so far.
HistIdle ==
    /\ cleared = NoTicket
    /\ afterClear = FALSE

----------------------------------------------------------------------------
(* Specifications *)

AuthInit ==
    /\ now = 0
    /\ ticket = NoTicket
    /\ hasStorage \in BOOLEAN
    /\ stored = NoTicket
    /\ issued = 0
    /\ pc = [c \in Callers |-> "idle"]
    /\ ret = [c \in Callers |-> NoRet]
    /\ io = [c \in Callers |-> NoIO]
    /\ fresh = [c \in Callers |-> NoTicket]

\* One login() call at a time on the instance.
Init ==
    /\ AuthInit
    /\ active = {"c1"}
    /\ WaitIdle
    /\ WsfeIdle
    /\ wsfeActive = {}
    /\ QrIdle
    /\ CalcIdle
    /\ InstIdle
    /\ HistIdle

Next ==
    \/ \E c \in active : LoginStart(c) /\ UNCHANGED notAuthVars
    \/ \E c \in active : StorageGetSettled(c) /\ UNCHANGED notAuthVars
    \/ \E c \in active : WsaaFetchSettled(c) /\ UNCHANGED notAuthVars
    \/ \E c \in active : WsaaBodyRead(c) /\ UNCHANGED notAuthVars
    \/ \E c \in active : StorageSaveSettled(c) /\ UNCHANGED notAuthVars
    \/ \E c \in active : LoginReturn(c) /\ UNCHANGED notAuthVars
    \/ clearCache /\ UNCHANGED notAuthVars
    \/ Tick /\ UNCHANGED notAuthVars
    \/ StoreWrittenElsewhere /\ UNCHANGED notAuthVars

Spec == Init /\ [][Next]_vars

\* Two login() calls of one instance that may interleave at their awaits.
InitConcurrent ==
    /\ AuthInit
    /\ active = Callers
    /\ WaitIdle
    /\ WsfeIdle
    /\ wsfeActive = {}
    /\ QrIdle
    /\ CalcIdle
    /\ InstIdle
    /\ HistIdle

SpecConcurrent == InitConcurrent /\ [][Next]_vars

\* Two overlapping login() calls of one instance configured without an
\* external store: the steps of login() that such an instance takes.
OverlapNext ==
    \/ \E c \in active : LoginStart(c) /\ UNCHANGED notAuthVars
    \/ \E c \in active : WsaaFetchSettled(c) /\ UNCHANGED notAuthVars
    \/ \E c \in active : WsaaBodyRead(c) /\ UNCHANGED notAuthVars
    \/ \E c \in active : LoginReturn(c) /\ UNCHANGED notAuthVars
    \/ clearCache /\ UNCHANGED notAuthVars
    \/ Tick /\ UNCHANGED notAuthVars

OverlapInit ==
    /\ InitConcurrent
    /\ hasStorage = FALSE

SpecOverlap == OverlapInit /\ [][OverlapNext]_vars

WaitNext ==
    \/ OpStart /\ UNCHANGED notWaitVars
    \/ Elapse /\ UNCHANGED notWaitVars
    \/ TimerFires /\ UNCHANGED notWaitVars
    \/ FetchRejects /\ UNCHANGED notWaitVars
    \/ FetchResolves /\ UNCHANGED notWaitVars
    \/ BodySettles /\ UNCHANGED notWaitVars
    \/ StorageSettles /\ UNCHANGED notWaitVars

WaitInit ==
    /\ AuthInit
    /\ hasStorage = FALSE
    /\ active = {}
    /\ WaitIdle
    /\ WsfeIdle
    /\ wsfeActive = {}
    /\ QrIdle
    /\ CalcIdle
    /\ InstIdle
    /\ HistIdle

SpecWait == WaitInit /\ [][WaitNext]_vars

WsfeNext ==
    \/ \E o \in wsfeActive : IssueStart(o) /\ UNCHANGED notWsfeVars
    \/ \E o \in wsfeActive : LastNumberFetchSettled(o) /\ UNCHANGED notWsfeVars
    \/ \E o \in wsfeActive : LastNumberBodyRead(o) /\ UNCHANGED notWsfeVars
    \/ \E o \in wsfeActive : AuthorizeFetchSettled(o) /\ UNCHANGED notWsfeVars
    \/ \E o \in wsfeActive : AuthorizeBodyRead(o) /\ UNCHANGED notWsfeVars
    \/ \E o \in wsfeActive : QueryStart(o) /\ UNCHANGED notWsfeVars
    \/ \E o \in wsfeActive : QueryFetchSettled(o) /\ UNCHANGED notWsfeVars
    \/ \E o \in wsfeActive : QueryBodyRead(o) /\ UNCHANGED notWsfeVars
    \/ \E o \in wsfeActive : OpReturn(o) /\ UNCHANGED notWsfeVars
    \/ IssuedElsewhere /\ UNCHANGED notWsfeVars

\* Two issuance operations of this process for one point of sale that may
\* interleave at their awaits, each with a flat total or with items of one
\* rate; no other process issues meanwhile.
RaceParams ==
    {p \in IssueParams :
        /\ p.wrapper \in {"issueSimpleReceipt", "issueInvoiceWithVAT"}
        /\ p.total = IF p.wrapper = "issueSimpleReceipt" THEN 150000 ELSE 0
        /\ p.wrapper = "issueInvoiceWithVAT" =>
               (p.type = FACTURA_B /\ p.items = << Item(1, 12100, TRUE, 210) >> /\ p.includesVAT /\ ~p.associatedInvoices)}

RaceStart(o) == \E p \in RaceParams : issueStart(o, p)

RaceNext ==
    \/ \E o \in wsfeActive : RaceStart(o) /\ UNCHANGED notWsfeVars
    \/ \E o \in wsfeActive : LastNumberFetchSettled(o) /\ UNCHANGED notWsfeVars
    \/ \E o \in wsfeActive : LastNumberBodyRead(o) /\ UNCHANGED notWsfeVars
    \/ \E o \in wsfeActive : AuthorizeFetchSettled(o) /\ UNCHANGED notWsfeVars
    \/ \E o \in wsfeActive : AuthorizeBodyRead(o) /\ UNCHANGED notWsfeVars
    \/ \E o \in wsfeActive : OpReturn(o) /\ UNCHANGED notWsfeVars

RaceInit ==
    /\ AuthInit
    /\ hasStorage = FALSE
    /\ active = {}
    /\ WaitIdle
    /\ WsfeIdle
    /\ wsfeActive = WsfeCalls
    /\ QrIdle
    /\ CalcIdle
    /\ InstIdle
    /\ HistIdle

SpecRace == RaceInit /\ [][RaceNext]_vars

\* One WsfeService call at a time.
WsfeInit ==
    /\ AuthInit
    /\ hasStorage = FALSE
    /\ active = {}
    /\ WaitIdle
    /\ WsfeIdle
    /\ wsfeActive = {"o1"}
    /\ QrIdle
    /\ CalcIdle
    /\ InstIdle
    /\ HistIdle

SpecIssue == WsfeInit /\ [][WsfeNext]_vars

QrNext ==
    \/ GenerateQR /\ UNCHANGED notQrVars
    \/ QrReturn /\ UNCHANGED notQrVars

QrInit ==
    /\ AuthInit
    /\ hasStorage = FALSE
    /\ active = {}
    /\ WaitIdle
    /\ WsfeIdle
    /\ wsfeActive = {}
    /\ QrIdle
    /\ CalcIdle
    /\ InstIdle
    /\ HistIdle

SpecQR == QrInit /\ [][QrNext]_vars

CalcNext ==
    \/ Round /\ UNCHANGED notCalcVars
    \/ RoundReturn /\ UNCHANGED notCalcVars

CalcInit ==
    /\ AuthInit
    /\ hasStorage = FALSE
    /\ active = {}
    /\ WaitIdle
    /\ WsfeIdle
    /\ wsfeActive = {}
    /\ QrIdle
    /\ CalcIdle
    /\ InstIdle
    /\ HistIdle

SpecRound == CalcInit /\ [][CalcNext]_vars

\* login() and clearCache() of one instance, with the history of
\* clearCache(): which ticket it removed, and whether the login() call in
\* progress began after it.
ClearNext ==
    \/ \E c \in active :
          /\ LoginStart(c)
          /\ afterClear' = (cleared # NoTicket)
          /\ cleared' = cleared
          /\ UNCHANGED notHistVars
    \/ \E c \in active : StorageGetSettled(c) /\ UNCHANGED notAuthVars
    \/ \E c \in active : WsaaFetchSettled(c) /\ UNCHANGED notAuthVars
    \/ \E c \in active : WsaaBodyRead(c) /\ UNCHANGED notAuthVars
    \/ \E c \in active : StorageSaveSettled(c) /\ UNCHANGED notAuthVars
    \/ \E c \in active :
          /\ LoginReturn(c)
          /\ afterClear' = FALSE
          /\ cleared' = IF afterClear THEN NoTicket ELSE cleared
          /\ UNCHANGED notHistVars
    \/ /\ clearCache
       /\ cleared' = ticket
       /\ afterClear' = FALSE
       /\ UNCHANGED notHistVars
    \/ Tick /\ UNCHANGED notAuthVars

SpecClear == Init /\ [][ClearNext]_vars

\* One WsfeService instance while time passes.
InstNext ==
    \/ WsfeService /\ UNCHANGED <<ticket, hasStorage, stored, issued, pc, ret, io, fresh, active>>
                   /\ UNCHANGED notInstVars
    \/ sendRequest /\ UNCHANGED <<ticket, hasStorage, stored, issued, pc, ret, io, fresh, active>>
                   /\ UNCHANGED notInstVars
    \/ Tick /\ UNCHANGED notAuthVars

InstInit ==
    /\ AuthInit
    /\ hasStorage = FALSE
    /\ active = {}
    /\ WaitIdle
    /\ WsfeIdle
    /\ wsfeActive = {}
    /\ QrIdle
    /\ CalcIdle
    /\ InstIdle
    /\ HistIdle

SpecInstance == InstInit /\ [][InstNext]_vars

----------------------------------------------------------------------------
(* The ticket lifecycle: properties *)

\* C1: login() never returns through a cache path (memory or store) a ticket
\* with less than 5 minutes left at the time of the return; a call that met
\* such a ticket in memory does not return it from memory, and a call that
\* read such a ticket from the store (or met one in memory with no store
\* configured) went on to requestNewTicket().
C1_NoShortLivedCachedTicket ==
    \A c \in Callers :
        /\ (ret[c].kind = "ticket" /\ ret[c].path \in {"memory", "storage"})
              => ret[c].ticket.expirationTime - ret[c].at >= 5 * 60 * 1000
        /\ (io[c].staleMemory /\ ret[c].kind = "ticket") => ret[c].path # "memory"
        /\ io[c].staleStored => io[c].sign
        /\ (io[c].staleMemory /\ ~hasStorage) => io[c].sign

C1_Witness ==
    \E c \in Callers :
        /\ io[c].staleMemory
        /\ io[c].staleStored
        /\ pc[c] = "requesting"

\* C4: a login() that starts while the in-memory ticket is valid returns that
\* ticket in the same step, with no store call, no signing and no WSAA call,
\* and leaves the in-memory ticket and the store as they were.
C4_MemoryHitNoIO ==
    [][\A c \in Callers :
          (pc[c] = "idle" /\ pc'[c] # "idle" /\ ticket # NoTicket
             /\ ticket.expirationTime - now >= 5 * 60 * 1000)
          => /\ pc'[c] = "done"
             /\ ret'[c].kind = "ticket"
             /\ ret'[c].ticket = ticket
             /\ io'[c] = NoIO
             /\ ticket' = ticket
             /\ stored' = stored]_vars

C4_Witness ==
    \E c \in Callers :
        /\ pc[c] = "done"
        /\ ret[c].path = "memory"
        /\ hasStorage
        /\ stored # NoTicket
        /\ stored # ret[c].ticket

\* C23: when storage.get returns a ticket with more than 5 minutes left,
\* login() sets it as the in-memory ticket and returns it, having signed
\* nothing, called WSAA not at all and called save not at all; and a login()
\* that starts while the in-memory ticket is valid returns it from memory
\* without calling get.
C23_StoredTicketAdopted ==
    [][\A c \in Callers :
          /\ (/\ pc[c] = "getting" /\ pc'[c] # "getting"
               /\ ~io'[c].getFailed
               /\ stored # NoTicket
               /\ stored.expirationTime - now > 5 * 60 * 1000)
              => /\ pc'[c] = "done"
                 /\ ret'[c].kind = "ticket"
                 /\ ret'[c].ticket = stored
                 /\ ticket' = stored
                 /\ ~io'[c].sign /\ ~io'[c].wsaa /\ ~io'[c].save
                 /\ issued' = issued
                 /\ stored' = stored
          /\ (/\ pc[c] = "idle" /\ pc'[c] # "idle"
               /\ ticket # NoTicket
               /\ ticket.expirationTime - now >= 5 * 60 * 1000)
              => /\ ret'[c].path = "memory"
                 /\ ret'[c].ticket = ticket
                 /\ ~io'[c].get]_vars

\* A login() was served from memory with a ticket that WSAA did not issue to
\* this instance: the ticket adopted from the store by an earlier login().
C23_Witness ==
    \E c \in Callers :
        /\ pc[c] = "done"
        /\ ret[c].path = "memory"
        /\ issued = 0
        /\ ret[c].ticket = stored
        /\ ret[c].ticket # NoTicket

\* C5: a failing storage.get or storage.save never makes login() fail: after
\* a failed get the call signs a TRA (requestNewTicket), after a failed save
\* the call returns the ticket it obtained and the in-memory ticket is the
\* one it set; no error login() settles with comes from the store.
C5_StoreFailureNotFatal ==
    [][\A c \in Callers :
          /\ (pc[c] = "getting" /\ pc'[c] # "getting" /\ io'[c].getFailed)
                => /\ io'[c].sign
                   /\ pc'[c] = "requesting" \/ ret'[c].cause = "sign"
          /\ (pc[c] = "saving" /\ pc'[c] # "saving" /\ io'[c].saveFailed)
                => /\ ret'[c].kind = "ticket"
                   /\ ret'[c].ticket = fresh[c]
                   /\ ticket' = ticket
          /\ ret'[c].kind = "error"
                => ret'[c].cause \notin {"storage_get", "storage_save"}]_vars

C5_Witness ==
    \E c \in Callers :
        /\ pc[c] = "done"
        /\ io[c].getFailed
        /\ io[c].saveFailed
        /\ ret[c].kind = "ticket"
        /\ ret[c].ticket = ticket

\* C6 as stated: whenever login() fails because signing or the exchange with
\* WSAA failed, transport failure and timeout included, the error is an
\* ArcaAuthError.
C6_Original ==
    \A c \in Callers :
        (ret[c].kind = "error"
            /\ ret[c].cause \in {"sign", "transport", "timeout", "http_error", "fault",
                                 "unrecognized", "malformed", "parse_error"})
        => ret[c].error = "Auth"

\* C6 as amended: a failure of signing, an HTTP non-2xx status, a SOAP fault
\* and an unrecognized or malformed response give ArcaAuthError; a transport
\* failure or a timeout of callArcaApi gives ArcaNetworkError.
C6_AuthOrNetworkError ==
    \A c \in Callers :
        ret[c].kind = "error" =>
            /\ ret[c].cause \in {"sign", "http_error", "fault", "unrecognized",
                                 "malformed", "parse_error"}
                  => ret[c].error = "Auth"
            /\ ret[c].cause \in {"transport", "timeout"} => ret[c].error = "Network"

C6_Witness ==
    \E c \in Callers :
        /\ ret[c].kind = "error"
        /\ ret[c].cause = "http_error"
        /\ ret[c].error = "Auth"

----------------------------------------------------------------------------
(* WSFE: properties *)

\* C13: login() calls of one instance that overlap share one acquisition:
\* no two calls are at the same time in an authentication exchange with WSAA
\* (the request sent, or its response being read).
C13_Original ==
    \A c \in Callers, d \in Callers :
        (c # d /\ pc[c] \in {"requesting", "reading"})
            => pc[d] \notin {"requesting", "reading"}

IssueWrappers ==
    {"issueSimpleReceipt", "issueReceipt", "issueInvoiceWithVAT", "issueInvoiceWithoutVAT"}

\* C2: an issuance operation that fails with a ValidationError has made no
\* network call at all.
C2_Original ==
    \A o \in WsfeCalls :
        (opParams[o].wrapper \in IssueWrappers /\ opRet[o].error = "VALIDATION_ERROR")
            => opLog[o].net = 0

FetchFailures == {"transport", "timeout", "http_error"}

C9_Original ==
    \A o \in WsfeCalls :
        (opPc[o] = "done" /\ opLog[o].errors # << >>) =>
            LET first == Head(opLog[o].errors)
            IN  /\ opRet[o].kind = "error"
                /\ opRet[o].error = "ARCA_ERROR"
                /\ opRet[o].details = opLog[o].errors
                /\ opRet[o].message = <<"Error ARCA: ", first.Msg>>
                /\ opRet[o].hint = getArcaHint(first.Code)

\* C11: an operation that received a response with a SOAP Fault (last-number
\* query, authorize, invoice query, points-of-sale listing) has not gone on:
\* it ended with an error that reports the fault, not with the error of an
\* unrecognized structure.
C11_Original ==
    \A o \in WsfeCalls :
        opLog[o].fault =>
            /\ opPc[o] = "done"
            /\ opRet[o].kind = "error"
            /\ opRet[o].error # "PARSE_ERROR"
            /\ opRet[o].message = <<"Error ARCA: ", FaultString>>

\* The codes of the four kinds of error: ArcaValidationError, ArcaAuthError,
\* ArcaNetworkError, and the ArcaError thrown for a remote error list.
ErrorKinds == {"VALIDATION_ERROR", "AUTH_ERROR", "NETWORK_ERROR", "ARCA_ERROR"}

\* C12: every error a WSFE operation ends with has one of the four kinds
\* (validation, authentication, network, remote error), and an operation
\* that received a non-2xx HTTP status ends with the network kind.
C12_Original ==
    \A o \in WsfeCalls :
        opRet[o].kind = "error" =>
            /\ opRet[o].error \in ErrorKinds
            /\ ("http_error" \in {opLog[o].lastFetch, opLog[o].submitFetch}
                    => opRet[o].error = "NETWORK_ERROR")

\* C15: a credit or debit note issued with no associated document, or an
\* A/B document issued with an item that has no tax rate, ends with a
\* ValidationError before issuance starts: the operation made no network
\* call and sent no authorize request.
C15_WrapperChecksFirst ==
    \A o \in WsfeCalls :
        LET p == opParams[o]
        IN  (/\ p.wrapper \in {"issueInvoiceWithVAT", "issueInvoiceWithoutVAT"}
             /\ \/ p.type \in {NOTA_CREDITO_A, NOTA_DEBITO_A, NOTA_CREDITO_B,
                                NOTA_DEBITO_B, NOTA_CREDITO_C, NOTA_DEBITO_C}
                      /\ ~p.associatedInvoices
                \/ p.wrapper = "issueInvoiceWithVAT"
                      /\ \E i \in 1..Len(p.items) : ~p.items[i].hasVatRate)
            => /\ opPc[o] = "done"
               /\ opRet[o].kind = "error"
               /\ opRet[o].error = "VALIDATION_ERROR"
               /\ opLog[o].net = 0
               /\ opLog[o].authorize = 0

C15_Witness ==
    \E o \in WsfeCalls :
        /\ opParams[o].wrapper = "issueInvoiceWithVAT"
        /\ opParams[o].type = FACTURA_B
        /\ \E i \in 1..Len(opParams[o].items) : ~opParams[o].items[i].hasVatRate
        /\ opPc[o] = "done"
        /\ opRet[o].error = "VALIDATION_ERROR"
        /\ opLog[o].net = 0

\* The remote code of each rate (tenths of a percent): 0%, 10.5%, 21%, 27%.
RateCodes == (0 :> 3) @@ (105 :> 4) @@ (210 :> 5) @@ (270 :> 6)

\* C16: the tax-breakdown block of an authorize request that was sent holds,
\* for each rate of the items in order, the fixed code of that rate (0 to 3,
\* 10.5 to 4, 21 to 5, 27 to 6); an A/B operation with an item at any other
\* rate sends no authorize request, and when it got as far as building the
\* request it ended with a ValidationError.
C16_OnlyMappedRatesSent ==
    \A o \in WsfeCalls :
        opParams[o].wrapper = "issueInvoiceWithVAT" =>
            LET p == opParams[o]
                vatData == calculateVATByRate(p.items, p.includesVAT)
                sent == opLog[o].sent
                unmapped == \E i \in 1..Len(p.items) :
                               rateOf(p.items[i]) \notin DOMAIN RateCodes
            IN  /\ opLog[o].authorize = 1 =>
                       /\ Len(sent.Iva) = Len(vatData)
                       /\ \A i \in 1..Len(vatData) :
                              /\ vatData[i].rate \in DOMAIN RateCodes
                              /\ sent.Iva[i].Id = RateCodes[vatData[i].rate]
                /\ unmapped =>
                       /\ opLog[o].authorize = 0
                       /\ opLog[o].sent = NoSent
                       /\ (opPc[o] = "done" /\ opLog[o].last = "answered")
                              => opRet[o].error = "VALIDATION_ERROR"

C16_Witness ==
    \E o \in WsfeCalls :
        /\ opParams[o].wrapper = "issueInvoiceWithVAT"
        /\ opParams[o].items = << Item(1, 10000, TRUE, 150) >>
        /\ opPc[o] = "done"
        /\ opLog[o].last = "answered"
        /\ opLog[o].net = 1
        /\ opLog[o].authorize = 0
        /\ opRet[o].error = "VALIDATION_ERROR"
        /\ opRet[o].message = <<"alicuota invalida">>

\* The call sent an authorize request whose amounts issueDocument computed
\* from items with prices net of tax.
sentNetOfTax(o) ==
    /\ opLog[o].authorize = 1
    /\ opParams[o].wrapper \in {"issueInvoiceWithVAT", "issueInvoiceWithoutVAT"}
    /\ ~opParams[o].includesVAT

\* C19, as claimed: for items with prices net of tax, the total sent
\* (ImpTotal) is the rounded sum of the subtotal and the tax that are sent
\* (ImpNeto, ImpIVA).
C19_Original ==
    \A o \in WsfeCalls :
        sentNetOfTax(o) =>
            LET sent == opLog[o].sent
            IN  sent.ImpTotal = round((sent.ImpNeto + sent.ImpIVA) * Milli)

\* C19, amended: for items with prices net of tax, the total sent is the
\* rounded sum of the unrounded subtotal and the unrounded tax, the subtotal
\* and the tax sent are each of them rounded on its own, and the total is
\* within one centavo of their sum.
C19_TotalOfUnroundedSums ==
    \A o \in WsfeCalls :
        sentNetOfTax(o) =>
            LET sent == opLog[o].sent
                subtotal == calculateSubtotal(opParams[o].items, FALSE)
                tax == calculateVAT(opParams[o].items, FALSE)
            IN  /\ sent.ImpTotal = round(subtotal + tax)
                /\ sent.ImpNeto = round(subtotal)
                /\ sent.ImpIVA = round(tax)
                /\ sent.ImpTotal - (sent.ImpNeto + sent.ImpIVA) \in {-1, 0, 1}

C19_Witness ==
    \E o \in WsfeCalls :
        /\ sentNetOfTax(o)
        /\ opParams[o].items = << ItemOfTenths(4, 10011, TRUE, 105) >>
        /\ opLog[o].sent.ImpNeto = 4004
        /\ opLog[o].sent.ImpIVA = 420
        /\ opLog[o].sent.ImpTotal = 4425

\* C21: for items whose prices include the tax, the subtotal and the tax
\* sent (ImpNeto, ImpIVA: the net prices recovered as unitPrice / (1 +
\* rate/100) and the tax on them, each sum rounded) add up to the total sent
\* (ImpTotal: the rounded sum of quantity x unitPrice) to within one centavo.
C21_TaxInclusiveRoundTrip ==
    \A o \in WsfeCalls :
        (/\ opLog[o].authorize = 1
         /\ opParams[o].wrapper = "issueInvoiceWithVAT"
         /\ opParams[o].includesVAT)
            => LET sent == opLog[o].sent
               IN  /\ sent.ImpTotal = round(grossSum(opParams[o].items))
                   /\ (sent.ImpNeto + sent.ImpIVA) - sent.ImpTotal \in {-1, 0, 1}

C21_Witness ==
    \E o \in WsfeCalls :
        /\ opLog[o].authorize = 1
        /\ opParams[o].includesVAT
        /\ opParams[o].items = << Item(1, 12100, TRUE, 210) >>
        /\ opLog[o].sent.ImpNeto = 10000
        /\ opLog[o].sent.ImpIVA = 2100
        /\ opLog[o].sent.ImpTotal = 12100

\* C22: the tax-breakdown block of an authorize request that was sent has one
\* entry per distinct rate of the items, in the order in which each rate
\* first occurs, holding the code of the rate, the rounded sum of the net
\* amounts of the items with that rate and the rounded sum of their tax; so
\* no entry stands for a rate that no item carries.
C22_OneEntryPerRate ==
    \A o \in WsfeCalls :
        (opLog[o].authorize = 1 /\ opParams[o].wrapper = "issueInvoiceWithVAT") =>
            LET items == opParams[o].items
                inc == opParams[o].includesVAT
                firsts == SelectSeq([i \in 1..Len(items) |-> i],
                              LAMBDA i : \A j \in 1..(i - 1) :
                                            rateOf(items[j]) # rateOf(items[i]))
                Iva == opLog[o].sent.Iva
            IN  /\ Len(Iva) = Len(firsts)
                /\ \A k \in 1..Len(firsts) :
                       LET rate == rateOf(items[firsts[k]])
                           same == SelectSeq(items, LAMBDA it : rateOf(it) = rate)
                       IN  /\ Iva[k].Id = RateCodes[rate]
                           /\ Iva[k].BaseImp = round(calculateSubtotal(same, inc))
                           /\ Iva[k].Importe = round(calculateVAT(same, inc))

C22_Witness ==
    \E o \in WsfeCalls :
        /\ opLog[o].authorize = 1
        /\ ~opParams[o].includesVAT
        /\ Len(opParams[o].items) = 4
        /\ opLog[o].sent.Iva =
              << [Id |-> 5, BaseImp |-> 13333, Importe |-> 2800],
                 [Id |-> 4, BaseImp |-> 10000, Importe |-> 1050],
                 [Id |-> 3, BaseImp |-> 1000, Importe |-> 0] >>

\* Two different calls that sent the authorize request for the same document
\* type with the same number, and have both ended.
collided(o, q) ==
    /\ o # q
    /\ opPc[o] = "done" /\ opPc[q] = "done"
    /\ opLog[o].authorize = 1 /\ opLog[q].authorize = 1
    /\ opLog[o].sent.CbteTipo = opLog[q].sent.CbteTipo
    /\ opLog[o].sent.CbteDesde = opLog[q].sent.CbteDesde

\* The call returned a CAEResponse whose result is approved.
returnedApproved(o) == opRet[o].kind = "value" /\ opRet[o].value.result = "A"

\* C14, as claimed: of two operations that submitted the same number for the
\* same document type, the one whose number the remote service did not accept
\* and answered ends with the remote error (ARCA_ERROR), and the two do not
\* both return an approved CAEResponse for that number.
C14_Original ==
    \A o \in WsfeCalls, q \in WsfeCalls :
        collided(o, q) =>
            /\ ~(returnedApproved(o) /\ returnedApproved(q))
            /\ (~opLog[o].approved /\ opLog[o].submit \in {"answered", "rejected"})
                   => opRet[o].error = "ARCA_ERROR"

\* C14, amended: of two operations that submitted the same number for the
\* same document type, the one whose number the remote service did not accept
\* never returns an approved CAEResponse: it ends with an error (the remote
\* error when the answer holds an error list) or with a CAEResponse whose
\* result is R; and the two do not both return an approved CAEResponse for
\* that number.
C14_RemoteArbitrates ==
    \A o \in WsfeCalls, q \in WsfeCalls :
        collided(o, q) =>
            /\ ~(returnedApproved(o) /\ returnedApproved(q))
            /\ ~opLog[o].approved =>
                   /\ ~returnedApproved(o)
                   /\ opRet[o].kind = "error" \/ opRet[o].value.result = "R"
                   /\ opLog[o].errors # << >> => opRet[o].error = "ARCA_ERROR"

C14_Witness ==
    \E o \in WsfeCalls, q \in WsfeCalls :
        /\ collided(o, q)
        /\ opLog[o].hasReported /\ opLog[q].hasReported
        /\ opLog[o].reported = opLog[q].reported
        /\ returnedApproved(o)
        /\ opRet[o].value.invoiceNumber = opLog[o].sent.CbteDesde
        /\ ~opLog[q].approved
        /\ opRet[q].kind = "value"
        /\ opRet[q].value.result = "R"

----------------------------------------------------------------------------
(* The QR URL: properties *)

\* What a reader of the QR code does with the URL: decodeURIComponent of the
\* p parameter, base64 decoding, and the keys and values of the JSON text.
hexValue(c) == (CHOOSE i \in 1..16 : HexDigits[i] = c) - 1

decodeURIComponent(s) ==
    LET percent == codeOf("%")
        heads == SelectSeq([i \in 1..Len(s) |-> i],
                           LAMBDA i : /\ ~(i > 1 /\ s[i - 1] = percent)
                                      /\ ~(i > 2 /\ s[i - 2] = percent))
    IN  [k \in 1..Len(heads) |->
            LET i == heads[k]
            IN  IF s[i] = percent
                THEN hexValue(s[i + 1]) * 16 + hexValue(s[i + 2])
                ELSE s[i]]

b64Value(c) == IF c = Pad THEN 0 ELSE CHOOSE n \in 0..63 : b64(n) = c

fromBase64(t) ==
    LET pads == Cardinality({i \in 1..Len(t) : t[i] = Pad})
        v(g, j) == b64Value(t[4 * g + j])
    IN  [i \in 1..(3 * (Len(t) \div 4) - pads) |->
            LET g == (i - 1) \div 3
                k == (i - 1) % 3
            IN  CASE k = 0 -> v(g, 1) * 4 + v(g, 2) \div 16
                  [] k = 1 -> (v(g, 2) % 16) * 16 + v(g, 3) \div 4
                  [] OTHER -> (v(g, 3) % 4) * 64 + v(g, 4)]

payloadOf(url) ==
    fromBase64(decodeURIComponent(SubSeq(url, Len(QrPrefix) + 1, Len(url))))

\* The keys of a JSON object of numbers and plain strings, in their order.
keysOf(json) ==
    LET quote == codeOf("\"")
        starts == SelectSeq([i \in 1..Len(json) |-> i],
                            LAMBDA i : /\ i > 1
                                       /\ json[i] = quote
                                       /\ json[i - 1] \in {codeOf("{"), codeOf(",")})
        close(i) == CHOOSE j \in (i + 1)..Len(json) :
                        /\ json[j] = quote
                        /\ \A k \in (i + 1)..(j - 1) : json[k] # quote
    IN  [k \in 1..Len(starts) |-> SubSeq(json, starts[k] + 1, close(starts[k]) - 1)]

\* The text of the value of a key that the object has.
valueOf(json, key) ==
    LET pat == Key(key)
        at == CHOOSE i \in 1..Len(json) :
                 /\ i + Len(pat) - 1 <= Len(json)
                 /\ SubSeq(json, i, i + Len(pat) - 1) = pat
        from == at + Len(pat)
        to == CHOOSE j \in from..Len(json) :
                 /\ json[j] \in {codeOf(","), codeOf("}")}
                 /\ \A k \in from..(j - 1) : json[k] \notin {codeOf(","), codeOf("}")}
    IN  SubSeq(json, from, to - 1)

KeysBefore ==
    << Text(<<"v","e","r">>), Text(<<"f","e","c","h","a">>), Text(<<"c","u","i","t">>),
       Text(<<"p","t","o","V","t","a">>), Text(<<"t","i","p","o","C","m","p">>),
       Text(<<"n","r","o","C","m","p">>), Text(<<"i","m","p","o","r","t","e">>),
       Text(<<"m","o","n","e","d","a">>), Text(<<"c","t","z">>) >>

KeysOfBuyer ==
    << Text(<<"t","i","p","o","D","o","c","R","e","c">>),
       Text(<<"n","r","o","D","o","c","R","e","c">>) >>

KeysAfter ==
    << Text(<<"t","i","p","o","C","o","d","A","u","t">>), Text(<<"c","o","d","A","u","t">>) >>

\* C17: the keys of the JSON payload read back from a QR URL are, in this
\* order, ver, fecha, cuit, ptoVta, tipoCmp, nroCmp, importe, moneda, ctz,
\* then tipoDocRec and nroDocRec when the payload has them, then tipoCodAut
\* and codAut.
C17_KeyOrder ==
    qrPc = "done" =>
        keysOf(payloadOf(qrUrl)) \in
            {KeysBefore \o KeysOfBuyer \o KeysAfter, KeysBefore \o KeysAfter}

C17_Witness ==
    /\ qrPc = "done"
    /\ qrIn.comprador = Comprador(DNI, Text(<<"1","2",".","3","4","5",".","6","7","8">>))
    /\ keysOf(payloadOf(qrUrl)) = KeysBefore \o KeysOfBuyer \o KeysAfter

\* The digits of s stand for zero (no digit at all counts as zero).
isZero(s) == \A i \in 1..Len(s) : s[i] = codeOf("0")

\* C18: the payload read back from a QR URL lacks tipoDocRec and nroDocRec
\* exactly when the buyer's document type is 99 (the type of a call without
\* buyer) and the digits of the buyer's document number stand for zero; in
\* every other case it has both, each with a number as its value, the type
\* under tipoDocRec.
C18_BuyerFields ==
    qrPc = "done" =>
        LET json == payloadOf(qrUrl)
            keys == {keysOf(json)[i] : i \in 1..Len(keysOf(json))}
            tipo == IF qrIn.comprador.present
                    THEN qrIn.comprador.tipoDocumento ELSE FINAL_CONSUMER
            nro == IF qrIn.comprador.present
                   THEN digitsOnly(qrIn.comprador.nroDocumento) ELSE << >>
        IN  IF tipo = FINAL_CONSUMER /\ isZero(nro)
            THEN KeysOfBuyer[1] \notin keys /\ KeysOfBuyer[2] \notin keys
            ELSE /\ KeysOfBuyer[1] \in keys /\ KeysOfBuyer[2] \in keys
                 /\ valueOf(json, <<"t","i","p","o","D","o","c","R","e","c">>) = decimal(tipo)
                 /\ LET value == valueOf(json, <<"n","r","o","D","o","c","R","e","c">>)
                    IN  /\ value # << >>
                        /\ \A i \in 1..Len(value) : isDigit(value[i])
                        /\ digitsOnly(value) = numberOfDigits(nro)

C18_Witness ==
    /\ qrPc = "done"
    /\ qrIn.comprador = Comprador(FINAL_CONSUMER, Text(<<"1","2","3","4","5","6","7","8">>))
    /\ valueOf(payloadOf(qrUrl), <<"n","r","o","D","o","c","R","e","c">>)
           = Text(<<"1","2","3","4","5","6","7","8">>)

\* sub occurs in s
Contains(s, sub) ==
    \E i \in 1..(Len(s) - Len(sub) + 1) : SubSeq(s, i, i + Len(sub) - 1) = sub

\* C3: the QR URL is the fixed prefix followed by the standard base64 of the
\* compact JSON payload, verbatim: what follows the prefix is never
\* percent-encoded, so it contains none of %2B, %2F, %3D.
C3_Original ==
    qrPc = "done" =>
        LET segment == SubSeq(qrUrl, Len(QrPrefix) + 1, Len(qrUrl))
        IN  /\ SubSeq(qrUrl, 1, Len(QrPrefix)) = QrPrefix
            /\ segment = toBase64(qrJson(qrIn))
            /\ ~Contains(segment, Text(<<"%", "2", "B">>))
            /\ ~Contains(segment, Text(<<"%", "2", "F">>))
            /\ ~Contains(segment, Text(<<"%", "3", "D">>))

----------------------------------------------------------------------------
(* The awaits of the public operations: properties *)

\* C10: no public operation blocks indefinitely: every await on an external
\* party has lasted at most the timeout the caller configured (15 seconds when
\* none is configured).
C10_Original ==
    wWait # "none" => wElapsed <= callArcaApiTimer(wCfg)

----------------------------------------------------------------------------
(* round: properties *)

\* C20: round returns its argument rounded to 2 decimals (whole centavos)
\* with a half moved away from zero, for negative arguments too.
C20_Original ==
    calcPc = "done" =>
        LET magnitude == IF calcIn >= 0 THEN calcIn ELSE -calcIn
            nearest == (magnitude + (Milli \div 2)) \div Milli
        IN  calcOut = IF calcIn >= 0 THEN nearest ELSE -nearest

----------------------------------------------------------------------------
(* WsfeService construction: properties *)

\* C24: a constructor call returns an instance only for a config whose
\* ticket carries a token and whose point of sale is in 1..9999; for any
\* other config it throws a ValidationError, no instance exists and no
\* request is sent; an instance that sends a request has such a config.
C24_ConstructedOnlyWhenValid ==
    [][/\ (instPc = "none" /\ instIn' # instIn) \/ (instPc = "none" /\ instPc' = "ready")
          \/ (instPc = "none" /\ instErr' # instErr)
          => IF instIn'.hasTicket /\ instIn'.token # 0 /\ instIn'.pointOfSale \in 1..9999
             THEN /\ instPc' = "ready"
                  /\ instConfig' = instIn'
                  /\ instErr' = NoThrow
             ELSE /\ instPc' = "none"
                  /\ instErr'.kind = "error"
                  /\ instErr'.error = "VALIDATION_ERROR"
                  /\ instSent' = instSent
       /\ instSent' # instSent
          => /\ instConfig.hasTicket
             /\ instConfig.token # 0
             /\ instConfig.pointOfSale \in 1..9999]_vars

\* C24, witness: a config with a ticket and point of sale 10000 has been
\* refused, and no request has been sent.
C24_Witness ==
    /\ instPc = "none"
    /\ instIn.hasTicket /\ instIn.token # 0 /\ instIn.pointOfSale = 10000
    /\ instErr.error = "VALIDATION_ERROR"
    /\ instSent = NoRequest

\* C29: every request an instance sends carries the token and the sign of
\* the ticket passed to its constructor; the instance keeps that ticket for
\* as long as it exists, and it can send whatever the clock says (it never
\* looks at the expiration time of the ticket).
C29_RequestsCarryConstructionTicket ==
    [][/\ instSent' # instSent
          => /\ instSent'.Token = instIn.token
             /\ instSent'.Sign = instIn.sign
             /\ instIn.token # 0
       /\ instPc = "ready"
          => /\ instPc' = "ready"
             /\ instConfig' = instConfig
             /\ instConfig = instIn
             /\ ENABLED sendRequest]_vars

\* C29, witness: a request has been sent, with the token of the ticket, at
\* or after the instant the ticket expired.
C29_Witness ==
    /\ instSent.method = "FECAESolicitar"
    /\ instSent.sentAt >= instConfig.expirationTime
    /\ instSent.Token = instConfig.token
    /\ instSent.Token # 0

----------------------------------------------------------------------------
(* Tickets of several services in one store: properties *)

\* C26: every ticket login() returns was issued for the service the
\* instance is configured with.
C26_Original ==
    \A c \in Callers :
        ret[c].kind = "ticket" => ret[c].ticket.service = ConfigService

----------------------------------------------------------------------------
(* clearCache: properties *)

\* C25: a login() call that begins after clearCache() and returns a ticket
\* returns one it obtained from WSAA in that call, not the ticket that
\* clearCache() removed.
C25_Original ==
    [][\A c \in Callers :
          (pc[c] # "done" /\ pc'[c] = "done" /\ afterClear' /\ ret'[c].kind = "ticket")
            => /\ ret'[c].ticket # cleared
               /\ io'[c].wsaa]_vars

----------------------------------------------------------------------------
(* The renewal buffer: properties *)

\* C27: a ticket login() returns from memory or from the store has more than
\* 5 minutes left at the time of the return: a ticket with exactly 5 minutes
\* left is returned by neither path.
C27_Original ==
    \A c \in Callers :
        (ret[c].kind = "ticket" /\ ret[c].path \in {"memory", "storage"})
          => ret[c].ticket.expirationTime - ret[c].at > 5 * 60 * 1000

----------------------------------------------------------------------------
(* Rejected documents: properties *)

\* C28: when the body of the authorize response has a result without an
\* error list and a detail whose Resultado is "R", the issuance call does
\* not throw: it returns a response whose result is "R", with the messages
\* of the observations in the order of the response, and a QR URL.
C28_RejectionIsReturned ==
    [][\A o \in WsfeCalls :
          (/\ opPc[o] = "authorize_body"
           /\ opPc'[o] # "authorize_body"
           /\ opLog'[o].submit # "body_error"
           /\ opLog[o].body.hasResult
           /\ opLog[o].body.Errors = << >>
           /\ opLog[o].body.hasDet
           /\ opLog[o].body.Resultado = "R")
            => /\ opPc'[o] = "done"
               /\ opRet'[o].kind = "value"
               /\ opRet'[o].value.result = "R"
               /\ opRet'[o].value.observations = opLog[o].body.Observaciones
               /\ opRet'[o].value.hasQrUrl]_vars

\* C28, witness: an issuance call has returned a response with result "R"
\* and the two observations of the response.
C28_Witness ==
    \E o \in WsfeCalls :
        /\ opPc[o] = "done"
        /\ opParams[o].wrapper = "issueInvoiceWithVAT"
        /\ opRet[o].kind = "value"
        /\ opRet[o].value.result = "R"
        /\ opRet[o].value.observations = <<"obs1", "obs2">>
        /\ opRet[o].value.hasQrUrl

----------------------------------------------------------------------------
(* The tax-breakdown block and the totals: properties *)

\* The sum of one field over the AlicIva entries of a request.
RECURSIVE sumOver(_, _)
sumOver(entries, field) ==
    IF entries = << >> THEN 0
    ELSE Head(entries)[field] + sumOver(Tail(entries), field)

\* C30: in every authorize request with a tax-breakdown block, the BaseImp
\* of the entries add up to ImpNeto and the Importe of the entries add up to
\* ImpIVA.
C30_Original ==
    \A o \in WsfeCalls :
        (opLog[o].authorize = 1 /\ opLog[o].sent.Iva # << >>)
          => /\ sumOver(opLog[o].sent.Iva, "BaseImp") = opLog[o].sent.ImpNeto
             /\ sumOver(opLog[o].sent.Iva, "Importe") = opLog[o].sent.ImpIVA

====
